---------------------------- MODULE Spec2Model ----------------------------
(***************************************************************************)
(* Model of the repository view service of wit                             *)
(* (wit/src/service/git/mod.rs): GitRepository::list_index and             *)
(* GitRepository::list_tree over a git repository made of a flat,          *)
(* path-sorted index and the tree objects of the HEAD commit, and          *)
(* open, get_blob, list_branch, list_commit, list_reference and list_tag   *)
(* over a backend that may fail.                                           *)
(*                                                                         *)
(* Spec        one request at a time on repositories written by the tests  *)
(* SpecService the operations on repositories holding bytes that are not   *)
(*             UTF-8, missing or unreadable objects, failing iterators     *)
(* SpecConc    list_index / list_tree calls running at the same time, one  *)
(*             closure call per step                                       *)
(* SpecTime    list_commit on commits with times around every limit of the *)
(*             conversion to a date-time                                   *)
(* SpecHttp    requests to the routes of the JSON API and of the HTML      *)
(*             pages (wit/src/router/api.rs, git.rs)                       *)
(*                                                                         *)
(* Strings are TLA+ strings; TLC treats them as sequences of characters    *)
(* (Len, \o, SubSeq, Head, Tail).  Vec<T> is a sequence, HashSet<String> a *)
(* set of strings, GitResult<T> a record [status, value]; a panic is the   *)
(* status "Panic".                                                         *)
(***************************************************************************)
EXTENDS Integers, Sequences, FiniteSets, TLC

VARIABLES
    index,      \* the staged index: entries in the order Index::iter() yields them
    odb,        \* the object database: object id -> object
    head,       \* id of the root tree of the HEAD commit, or "unborn"
    pc,         \* "idle": no request in progress; "done": a request has returned
    op,         \* the operation of the last request
    arg,        \* the path argument of the last request, as the caller passed it
    result,     \* what the operation returned
    refdb,      \* what the backend's iterators yield: revwalk, branches,
                \* references, tags
    fs,         \* what Repository::open answers for each location
    calls,      \* the requests running concurrently, each with its locals
    response    \* the HTTP response of the last request to the router

vars == <<index, odb, head, pc, op, arg, result, refdb, fs, calls, response>>

---------------------------------------------------------------------------
(* Bounds of the model.                                                    *)

\* longest index path, in characters
MaxPathLen == 5
\* most entries an index holds
MaxEntries == 3
\* longest query path, in characters
MaxQueryLen == 4

\* file and directory names of the repositories explored; "ab" extends "a"
\* without a '/' boundary
Names == {"a", "ab"}
\* segments a query path is made of; the empty segment gives leading,
\* trailing and doubled slashes
QuerySegs == {"", "a", "ab"}

---------------------------------------------------------------------------
(* str methods used by the service, computed on characters.                *)

Char(s, i) == SubSeq(s, i, i)

\* str::starts_with(prefix)
starts_with(s, prefix) ==
    /\ Len(prefix) <= Len(s)
    /\ SubSeq(s, 1, Len(prefix)) = prefix

strip_suffix_all(s) ==
    IF \A i \in 1..Len(s) : Char(s, i) = "/" THEN ""
    ELSE SubSeq(s, 1, CHOOSE i \in 1..Len(s) :
                        /\ Char(s, i) # "/"
                        /\ \A j \in (i + 1)..Len(s) : Char(s, j) = "/")
\* path.strip_suffix('/').unwrap_or(path): removes one trailing '/', if any
strip_suffix(s) ==
    IF Len(s) > 0 /\ Char(s, Len(s)) = "/"
    THEN SubSeq(s, 1, Len(s) - 1)
    ELSE s

\* position of the first '/' of s, 0 when s holds none
find_slash(s) ==
    IF \E i \in 1..Len(s) : Char(s, i) = "/"
    THEN CHOOSE i \in 1..Len(s) :
            /\ Char(s, i) = "/"
            /\ \A j \in 1..(i - 1) : Char(s, j) # "/"
    ELSE 0

\* str::splitn(n, '/'): at most n pieces, the last one holds the rest of s
RECURSIVE splitn(_, _)
splitn(n, s) ==
    IF n = 0 THEN <<>>
    ELSE IF n = 1 \/ find_slash(s) = 0 THEN <<s>>
    ELSE <<SubSeq(s, 1, find_slash(s) - 1)>>
            \o splitn(n - 1, SubSeq(s, find_slash(s) + 1, Len(s)))

\* str::split('/'): a string with k slashes gives k + 1 pieces
split(s) == splitn(Len(s) + 1, s)

\* [&str]::join("/")
RECURSIVE join(_)
join(parts) ==
    IF Len(parts) = 0 THEN ""
    ELSE IF Len(parts) = 1 THEN parts[1]
    ELSE parts[1] \o "/" \o join(Tail(parts))

\* Iterator::last() of split('/'), then map(str::to_string).unwrap_or_default()
last_segment(s) == split(s)[Len(split(s))]

---------------------------------------------------------------------------
(* Results.                                                                *)

Range(f) == {f[i] : i \in DOMAIN f}

Ok(v) == [status |-> "Ok", value |-> v]
Err(e) == [status |-> "Err", value |-> e]

\* A byte that is no part of a valid UTF-8 sequence is written "?" in the
\* model, where every other character is ASCII; U+FFFD is written "#".

\* String::from_utf8: the bytes as a String, or the error that holds them
from_utf8(bytes) ==
    IF \A i \in 1..Len(bytes) : Char(bytes, i) # "?"
    THEN Ok(bytes)
    ELSE Err(bytes)

\* String::from_utf8_lossy: every invalid byte becomes U+FFFD
RECURSIVE from_utf8_lossy(_)
from_utf8_lossy(bytes) ==
    IF Len(bytes) = 0 THEN ""
    ELSE (IF Head(bytes) = "?" THEN "#" ELSE Head(bytes))
            \o from_utf8_lossy(Tail(bytes))

\* Result::map_err(|e| String::from_utf8_lossy(e.as_bytes()).into_owned())
map_err_lossy(r) ==
    IF r.status = "Err" THEN Err(from_utf8_lossy(r.value)) ELSE r

\* Result::expect: the value of Ok; on Err the thread panics
expect(r) ==
    IF r.status = "Ok" THEN r ELSE [status |-> "Panic", value |-> r.value]

\* impl From<&[u8]> for MaybeLossyUtf8:
\* String::from_utf8(bytes.into()).map_err(..).expect(..)
MaybeLossyUtf8(bytes) == expect(map_err_lossy(from_utf8(bytes)))

---------------------------------------------------------------------------
(* The repository: how git orders and stores what the tests write with     *)
(* index.add_path and index.write_tree.                                    *)

\* the characters of the model, ascending by byte value
Alphabet == <<"/", "a", "b", "c", "d", "x", "?">>
CharOrd == [c \in Range(Alphabet) |-> CHOOSE i \in DOMAIN Alphabet : Alphabet[i] = c]

\* memcmp order of two strings, shorter prefix first
RECURSIVE Less(_, _)
Less(s, t) ==
    IF Len(s) = 0 THEN Len(t) > 0
    ELSE IF Len(t) = 0 THEN FALSE
    ELSE IF Head(s) = Head(t) THEN Less(Tail(s), Tail(t))
    ELSE CharOrd[Head(s)] < CharOrd[Head(t)]

\* the strings of S as an ascending sequence
RECURSIVE Sorted(_)
Sorted(S) ==
    IF S = {} THEN <<>>
    ELSE LET m == CHOOSE x \in S : \A y \in S \ {x} : Less(x, y)
         IN  <<m>> \o Sorted(S \ {m})

blob_id(p) == "blob:" \o p
tree_id(d) == "tree:" \o d

\* the part of p before its last '/', "" when p has one segment
parent(p) == join(SubSeq(split(p), 1, Len(split(p)) - 1))

\* the directories that hold the files F, the root "" included
RECURSIVE dirs_of(_)
dirs_of(F) ==
    LET up == {parent(p) : p \in F} \ {""}
    IN  IF up = {} THEN {""} ELSE up \cup dirs_of(up)

\* no path of F is also a directory of F (no directory/file conflict)
df_free(F) == F \cap dirs_of(F) = {}

\* Index::add_path for every file of F: the index keeps its entries sorted
\* by path
add_paths(F) ==
    LET paths == Sorted(F)
    IN  [i \in 1..Len(paths) |-> [path |-> paths[i], id |-> blob_id(paths[i])]]

\* the path of a child of directory d
child(d, n) == IF d = "" THEN n ELSE d \o "/" \o n

\* the entries of the tree object of directory d over the files F, in git's
\* tree order: by name, a subtree's name taken with a trailing '/'
tree_entries(F, d) ==
    LET D == dirs_of(F)
        key(n) == IF child(d, n) \in D THEN n \o "/" ELSE n
        names == {last_segment(q) : q \in {r \in F \cup D : r # "" /\ parent(r) = d}}
        keys == Sorted({key(n) : n \in names})
        entry(k) ==
            IF strip_suffix(k) # k
            THEN [name |-> strip_suffix(k), kind |-> "Tree",
                  id |-> tree_id(child(d, strip_suffix(k)))]
            ELSE [name |-> k, kind |-> "Blob", id |-> blob_id(child(d, k))]
    IN  [i \in 1..Len(keys) |-> entry(keys[i])]

\* Index::write_tree: one tree object per directory of F
write_tree(F) ==
    LET D == dirs_of(F)
    IN  [i \in {tree_id(d) : d \in D} |->
            [type |-> "Tree",
             entries |-> tree_entries(F, CHOOSE d \in D : i = tree_id(d))]]

\* the blobs written for the files F: a file holds its own path as content;
\* B are the files the backend classifies as binary
blobs_with(F, B) ==
    [i \in {blob_id(p) : p \in F} |->
        LET p == CHOOSE q \in F : i = blob_id(q)
        IN  [type |-> "Blob", content |-> p, binary |-> p \in B]]

\* git2::Time::new: the seconds since the epoch and the offset in minutes
Time_new(seconds, offset_minutes) ==
    [seconds |-> seconds, offset_minutes |-> offset_minutes]

\* the commits of the tests: HEAD and its parent, each with a message and
\* the time of its signature
HeadCommit == "commit:1"
ParentCommit == "commit:0"
commit_with_signature(message, time) ==
    (HeadCommit :> [type |-> "Commit", message |-> message, time |-> time])
        @@ (ParentCommit :> [type |-> "Commit", message |-> "Initial commit",
                             time |-> Time_new(0, 0)])

\* the references of a repository with a branch and a tag on HEAD, as the
\* backend's iterators yield them
refs_of(hd, branch, tag) ==
    IF hd = "unborn"
    THEN [revwalk |-> <<>>, branches |-> <<>>, references |-> <<>>, tags |-> <<>>]
    ELSE [revwalk    |-> <<Ok(HeadCommit), Ok(ParentCommit)>>,
          branches   |-> <<Ok([kind |-> "Local", name |-> branch,
                               target |-> HeadCommit])>>,
          references |-> <<Ok([kind |-> "Direct", name |-> branch,
                               target |-> HeadCommit]),
                           Ok([kind |-> "Direct", name |-> tag,
                               target |-> HeadCommit])>>,
          tags       |-> <<[id |-> HeadCommit, name |-> tag]>>]

\* no request to the router has been answered
NoResponse == [status |-> 0, format |-> "none", view |-> "none", data |-> <<>>]

\* git2::Error: the class, the code and the message of a backend error
git2_Error(class, code, message) ==
    [class |-> class, code |-> code, message |-> message]

\* the answers of Repository::open: a location for the repository and one
\* for every class and code of error
ErrorClasses == {"Os", "Repository", "Config", "Odb"}
ErrorCodes == {"NotFound", "GenericError"}
RepoRoot == "/repo"
Locations ==
    {RepoRoot} \cup {"/" \o c \o "/" \o e : c \in ErrorClasses, e \in ErrorCodes}
TheFiles ==
    [l \in Locations |->
        IF l = RepoRoot THEN Ok(RepoRoot)
        ELSE LET ce == CHOOSE x \in ErrorClasses \X ErrorCodes :
                            l = "/" \o x[1] \o "/" \o x[2]
             IN  Err(git2_Error(ce[1], ce[2], "could not open repository"))]

---------------------------------------------------------------------------
(* Abbreviated ids                                                         *)

\* the least number of characters the backend abbreviates an id to
DefaultAbbrev == 7
\* the number of characters of an id written out
OidTextLen == 10

\* an id written out: the ids of the model are names of different lengths,
\* the written form has one length
RECURSIVE id_text(_)
id_text(id) ==
    IF Len(id) >= OidTextLen THEN id ELSE id_text(id \o "0")

\* Object::short_id of a loaded object: the shortest beginning of the
\* written id, DefaultAbbrev characters or more, that no other object of
\* the store shares
Object_short_id(db, id) ==
    LET text == id_text(id)
        unique == {n \in DefaultAbbrev..Len(text) :
                     \A j \in DOMAIN db \ {id} :
                        SubSeq(id_text(j), 1, n) # SubSeq(text, 1, n)}
        n == IF unique = {} THEN Len(text)
             ELSE CHOOSE k \in unique : \A l \in unique : k <= l
    IN  SubSeq(text, 1, n)

\* an object that the store holds and can read
loadable(db, id) == id \in DOMAIN db /\ db[id].type # "Corrupt"

\* Result::unwrap_or_default on a String: the value, or the empty string
unwrap_or_default(r) == IF r.status = "Ok" THEN r.value ELSE ""

\* TreeEntry::to_object(..).map(|o| o.get_short_id()).unwrap_or_default():
\* the abbreviated id of the object of an entry, empty when the object
\* cannot be loaded
entry_short_id(db, id) ==
    unwrap_or_default(IF loadable(db, id) THEN Ok(Object_short_id(db, id))
                      ELSE Err(git2_Error("Odb", "NotFound", "object not found")))

\* ShortIdGetter for Reference: peel_to_commit().map(..).unwrap_or_default()
Reference_get_short_id(db, target) ==
    unwrap_or_default(IF loadable(db, target) /\ db[target].type = "Commit"
                      THEN Ok(Object_short_id(db, target))
                      ELSE Err(git2_Error("Invalid", "NotFound", "the requested type does not match the type in the ODB")))

---------------------------------------------------------------------------
(* GitRepository::list_index                                               *)

\* the closure convert_to_index_entry; the stat fields of the entry are
\* copied unchanged and left out
convert_to_index_entry(entry, full_path) ==
    [kind |-> "Entry",
     id   |-> entry.id,
     name |-> last_segment(full_path),
     path |-> full_path]

GitIndexDirectory(name, path) ==
    [kind |-> "Directory", name |-> name, path |-> path]

depth_one_less(path) == IF path = "" THEN 0 ELSE Len(split(path)) - 1
\* depth of the normalized query path
depth_of(path) == IF path = "" THEN 0 ELSE Len(split(path))

under_path_no_boundary(full_path, path) ==
    path = "" \/ starts_with(full_path, path)
\* the test that an entry lies below the query path: path.is_empty() ||
\* full_path.0.starts_with(&format!("{path}/"))
under_path(full_path, path) ==
    path = "" \/ starts_with(full_path, path \o "/")

is_exact_never(full_path, path) == FALSE
\* the test full_path.0.eq(path)
is_exact(full_path, path) == full_path = path

set_insert_forgets(set, dir) == set
\* set.insert(path.clone())
set_insert(set, dir) == set \cup {dir}

collect_reversed(acc, out) == out \o acc
\* collect(): the items in the order the closure yields them
collect(acc, out) == acc \o out

dir_path_name_only(components, depth) == components[depth + 1]
\* the path of the directory node: components[0..depth + 1].join("/")
dir_path(components, depth) == join(SubSeq(components, 1, depth + 1))

\* The filter_map closure on one index entry.  set is the HashSet of the
\* call; the value is the item the closure yields (none: <<>>) and the set
\* afterwards.  The conversion of the entry's path may panic, and so does
\* indexing components beyond its length.
index_visit(path, depth, set, entry) ==
    LET converted == MaybeLossyUtf8(entry.path)
        full_path == converted.value
    IN
    IF converted.status = "Panic"
    THEN [out |-> <<>>, set |-> set, panic |-> TRUE]
    ELSE IF is_exact(full_path, path)
    THEN [out |-> <<convert_to_index_entry(entry, full_path)>>,
          set |-> set, panic |-> FALSE]
    ELSE IF under_path(full_path, path)
    THEN LET components == splitn(depth + 2, full_path) IN
         IF Len(components) = depth + 1
         THEN [out |-> <<convert_to_index_entry(entry, full_path)>>,
               set |-> set, panic |-> FALSE]
         ELSE IF Len(components) < depth + 1
         THEN [out |-> <<>>, set |-> set, panic |-> TRUE]
         ELSE LET dir == dir_path(components, depth) IN
              IF dir \in set
              THEN [out |-> <<>>, set |-> set, panic |-> FALSE]
              ELSE [out |-> <<GitIndexDirectory(components[depth + 1], dir)>>,
                    set |-> set_insert(set, dir), panic |-> FALSE]
    ELSE [out |-> <<>>, set |-> set, panic |-> FALSE]

\* iter().filter_map(..).collect() over the entries from position i on
RECURSIVE index_scan(_, _, _, _, _, _)
index_scan(entries, i, path, depth, set, acc) ==
    IF i > Len(entries) THEN Ok(acc)
    ELSE LET v == index_visit(path, depth, set, entries[i]) IN
         IF v.panic THEN [status |-> "Panic", value |-> acc]
         ELSE index_scan(entries, i + 1, path, depth, v.set, collect(acc, v.out))

list_index_depth_of_argument(entries, p) ==
    LET path == strip_suffix(p)
        depth == depth_of(p)
    IN  index_scan(entries, 1, path, depth, {}, <<>>)
\* GitRepository::list_index: the path without one trailing '/', its depth,
\* a new set, and the scan of the index
list_index(entries, p) ==
    LET path == strip_suffix(p)
        depth == depth_of(path)
    IN  index_scan(entries, 1, path, depth, {}, <<>>)

---------------------------------------------------------------------------
(* GitRepository::list_tree                                                *)

GitError_from_any_class(e) ==
    IF e.code = "NotFound"
    THEN [variant |-> "ObjectNotFound", message |-> e.message]
    ELSE [variant |-> "Unhandled", class |-> e.class, code |-> e.code,
          message |-> e.message]
\* a mapping that looks at the class of the error alone
GitError_from_any_code(e) ==
    IF e.class = "Odb"
    THEN [variant |-> "ObjectNotFound", message |-> e.message]
    ELSE [variant |-> "Unhandled", class |-> e.class, code |-> e.code,
          message |-> e.message]
\* impl From<git2::Error> for GitError
GitError_from(e) ==
    IF e.class = "Odb" /\ e.code = "NotFound"
    THEN [variant |-> "ObjectNotFound", message |-> e.message]
    ELSE [variant |-> "Unhandled", class |-> e.class, code |-> e.code,
          message |-> e.message]

\* Repository::find_tree: the tree object with this id, if the store has one
find_tree_ok(db, id) == id \in DOMAIN db /\ db[id].type = "Tree"

\* the closure convert_to_tree; filemode is copied from the backend
\* unchanged and left out.  entry.name_bytes().into() may panic.
convert_to_tree(db, entry, root) ==
    LET name == MaybeLossyUtf8(entry.name) IN
    IF name.status = "Panic" THEN name
    ELSE Ok([id   |-> entry.id,
             kind |-> entry.kind,
             name |-> name.value,
             root |-> root,
             short_id |-> entry_short_id(db, entry.id)])

\* the closure collect_tree: the entries of one tree object, in its order
collect_tree(db, tree, root) ==
    LET items == [i \in 1..Len(tree.entries) |->
                    convert_to_tree(db, tree.entries[i], root)]
    IN  IF \E i \in DOMAIN items : items[i].status = "Panic"
        THEN [status |-> "Panic", value |-> <<>>]
        ELSE Ok([i \in DOMAIN items |-> items[i].value])

child_root_no_slash(curr) == curr
\* the root given to the children of the matched tree: format!("{curr}/")
child_root(curr) == curr \o "/"

skip_subtree_always(path, curr) == TRUE
skip_subtree_with_target(path, curr) == starts_with(path, curr \o "/")
\* the test that a subtree cannot hold the query path:
\* !path.starts_with(&format!("{curr}/"))
skip_subtree(path, curr) == ~starts_with(path, curr \o "/")

\* entry.name().unwrap_or_default(): the name, "" when it is not valid UTF-8
name_or_default(name) ==
    IF from_utf8(name).status = "Ok" THEN name ELSE ""

is_target_prefix(path, curr) == starts_with(curr, path)
\* the test path.eq(&curr) that finds the entry the query names
is_target(path, curr) == path = curr

TreeWalkResult_Continue == "Ok"
\* what the callback returns once the entry the query names is handled:
\* return TreeWalkResult::Abort
TreeWalkResult_on_match == "Abort"

\* The callback of root.walk on one entry.  root is the path prefix the
\* walk passes, vec the result so far; the value is vec afterwards and the
\* TreeWalkResult the callback returns, or "Panic" when a conversion
\* panics.  A matched tree that find_tree cannot load leaves vec as it is.
tree_visit(db, path, root, entry, vec) ==
    LET curr == root \o name_or_default(entry.name) IN
    IF is_target(path, curr)
    THEN IF entry.kind = "Tree"
         THEN IF find_tree_ok(db, entry.id)
              THEN LET c == collect_tree(db, db[entry.id], child_root(curr)) IN
                   IF c.status = "Panic"
                   THEN [vec |-> vec, ret |-> "Panic"]
                   ELSE [vec |-> c.value, ret |-> TreeWalkResult_on_match]
              ELSE [vec |-> vec, ret |-> TreeWalkResult_on_match]
         ELSE LET c == convert_to_tree(db, entry, root) IN
              IF c.status = "Panic"
              THEN [vec |-> vec, ret |-> "Panic"]
              ELSE [vec |-> Append(vec, c.value), ret |-> TreeWalkResult_on_match]
    ELSE IF entry.kind = "Tree" /\ skip_subtree(path, curr)
    THEN [vec |-> vec, ret |-> "Skip"]
    ELSE [vec |-> vec, ret |-> "Ok"]

\* Tree::walk(TreeWalkMode::PreOrder, callback) over the entries of one tree
\* from position i on: the callback sees an entry before the entries of its
\* subtree; Skip leaves the subtree out, Abort ends the walk, and so do a
\* subtree that cannot be looked up and a prefix that is not valid UTF-8
\* (the callback is not called with it).  The value is vec at the end,
\* whether the walk was ended early, and whether the callback panicked.
RECURSIVE tree_walk(_, _, _, _, _, _)
tree_walk(db, path, entries, i, root, vec) ==
    IF i > Len(entries) THEN [vec |-> vec, stop |-> FALSE, panic |-> FALSE]
    ELSE IF from_utf8(root).status = "Err"
    THEN [vec |-> vec, stop |-> TRUE, panic |-> FALSE]
    ELSE LET entry == entries[i]
             v == tree_visit(db, path, root, entry, vec)
         IN  IF v.ret = "Panic"
             THEN [vec |-> v.vec, stop |-> TRUE, panic |-> TRUE]
             ELSE IF v.ret = "Abort"
             THEN [vec |-> v.vec, stop |-> TRUE, panic |-> FALSE]
             ELSE IF v.ret = "Skip" \/ entry.kind # "Tree"
             THEN tree_walk(db, path, entries, i + 1, root, v.vec)
             ELSE IF ~find_tree_ok(db, entry.id)
             THEN [vec |-> v.vec, stop |-> TRUE, panic |-> FALSE]
             ELSE LET sub == tree_walk(db, path, db[entry.id].entries, 1,
                                       root \o entry.name \o "/", v.vec)
                  IN  IF sub.stop THEN sub
                      ELSE tree_walk(db, path, entries, i + 1, root, sub.vec)

is_root_query_never(path) == FALSE
\* the test path.is_empty() that sends the query to the root tree itself
is_root_query(path) == path = ""

\* hd is the root tree of the HEAD commit; with no commit yet,
\* self.repo.head()? fails.  What the walk itself returns is dropped by
\* unwrap_or_default(); a panic of the callback is resumed when the walk
\* returns.
list_tree(db, hd, p) ==
    LET path == strip_suffix(p) IN
    IF hd = "unborn"
    THEN Err(GitError_from(git2_Error("Reference", "UnbornBranch", "reference not found")))
    ELSE IF ~find_tree_ok(db, hd)
    THEN Err(GitError_from(git2_Error("Odb", "NotFound", "object not found")))
    ELSE IF is_root_query(path)
    THEN collect_tree(db, db[hd], "")
    ELSE LET w == tree_walk(db, path, db[hd].entries, 1, "", <<>>) IN
         IF w.panic THEN [status |-> "Panic", value |-> <<>>]
         ELSE Ok(w.vec)

---------------------------------------------------------------------------
(* GitRepository::open, get_blob and the enumerating operations            *)

\* Repository::open(&path): what the backend answers for the location
Repository_open(files, location) == files[location]

open_any_not_found(files, location) ==
    LET r == Repository_open(files, location) IN
    IF r.status = "Ok" THEN Ok(location)
    ELSE IF r.value.code = "NotFound"
    THEN Err([variant |-> "RepositoryNotFound", path |-> location])
    ELSE Err(GitError_from(r.value))
\* GitRepository::open: the handle of the repository at the location, or
\* the backend's error mapped
open(files, location) ==
    LET r == Repository_open(files, location) IN
    IF r.status = "Ok" THEN Ok(location)
    ELSE IF r.value.class \in {"Os", "Repository"} /\ r.value.code = "NotFound"
    THEN Err([variant |-> "RepositoryNotFound", path |-> location])
    ELSE Err(GitError_from(r.value))

\* Oid::zero()
ZeroOid == "0000"

\* Repository::find_blob: no object with this id, an object that cannot be
\* read, an object of another type, or the blob
find_blob(db, oid) ==
    IF oid \notin DOMAIN db
    THEN Err(git2_Error("Odb", "NotFound", "object not found"))
    ELSE IF db[oid].type = "Corrupt"
    THEN Err(git2_Error("Odb", "GenericError", "failed to read object"))
    ELSE IF db[oid].type # "Blob"
    THEN Err(git2_Error("Invalid", "NotFound", "the requested type does not match the type in the ODB"))
    ELSE Ok(db[oid])

\* a content that is Text exactly when its bytes are valid UTF-8, whatever
\* the backend says of the blob
GitBlobContent_by_bytes(b) ==
    IF from_utf8(b.content).status = "Err"
    THEN [status |-> "Ok", value |-> [variant |-> "Binary", bytes |-> b.content]]
    ELSE [status |-> "Ok", value |-> [variant |-> "Text", text |-> b.content]]
\* the match on b.is_binary() in get_blob: Binary(b.content().into()) or
\* Text(b.content().into()); the conversion to text may panic
GitBlobContent(b) ==
    IF b.binary
    THEN Ok([variant |-> "Binary", bytes |-> b.content])
    ELSE LET text == MaybeLossyUtf8(b.content) IN
         IF text.status = "Panic" THEN text
         ELSE Ok([variant |-> "Text", text |-> text.value])

\* GitRepository::get_blob
get_blob(db, oid) ==
    LET r == find_blob(db, oid) IN
    IF r.status = "Err" THEN Err(GitError_from(r.value))
    ELSE LET b == r.value
             content == GitBlobContent(b)
         IN  IF content.status = "Panic"
             THEN [status |-> "Panic", value |-> <<>>]
             ELSE Ok([content   |-> content.value,
                      id        |-> oid,
                      is_binary |-> b.binary,
                      short_id  |-> unwrap_or_default(Ok(Object_short_id(db, oid))),
                      size      |-> Len(b.content)])

is_ok(r) == r.status = "Ok"
\* Iterator::flatten over Results: the values of the Ok items, the Err
\* items are passed over
flatten(items) ==
    LET kept == SelectSeq(items, is_ok)
    IN  [i \in DOMAIN kept |-> kept[i].value]

\* collect() of converted items: a panic of one conversion unwinds the call
collect_converted(items) ==
    IF \E i \in DOMAIN items : items[i].status = "Panic"
    THEN [status |-> "Panic", value |-> <<>>]
    ELSE Ok(flatten(items))

\* the conversion of a Branch or Reference: name_bytes().into(), get_id(),
\* get_short_id(); shorthand and upstream are left out
convert_reference(db, r) ==
    LET name == MaybeLossyUtf8(r.name) IN
    IF name.status = "Panic" THEN name
    ELSE Ok([kind |-> r.kind, name |-> name.value, target |-> r.target,
             target_short |-> Reference_get_short_id(db, r.target)])

\* GitRepository::list_branch: repo.branches(None)?.flatten().map(..)
list_branch(db, refs) ==
    LET found == flatten(refs.branches)
    IN  collect_converted([i \in DOMAIN found |-> convert_reference(db, found[i])])

\* GitRepository::list_reference: repo.references()?.flatten().map(..)
list_reference(db, refs) ==
    LET found == flatten(refs.references)
    IN  collect_converted([i \in DOMAIN found |-> convert_reference(db, found[i])])

\* Repository::find_commit
find_commit_ok(db, id) == id \in DOMAIN db /\ db[id].type = "Commit"

\* i32 division and remainder: the quotient is rounded toward zero and the
\* remainder has the sign of the dividend
i32_div(a, b) == IF a >= 0 THEN a \div b ELSE -((-a) \div b)
i32_rem(a, b) == a - b * i32_div(a, b)

\* i8::try_from(i32)
i8_try_from(n) == IF n \in -128..127 THEN Ok(n) ELSE Err(n)

\* UtcOffset::UTC and UtcOffset::from_hms: an offset in whole seconds; the
\* hours must lie within 25 and the minutes and seconds within 59 of zero,
\* and the smaller components take the sign of the larger
UtcOffset_UTC == 0
UtcOffset_from_hms(h, m, sec) ==
    IF h \notin -25..25 \/ m \notin -59..59 \/ sec \notin -59..59
    THEN Err("ComponentRange")
    ELSE LET abs(n) == IF n < 0 THEN -n ELSE n
             mm == IF h > 0 THEN abs(m) ELSE IF h < 0 THEN -abs(m) ELSE m
             ss == IF h > 0 \/ (h = 0 /\ mm > 0) THEN abs(sec)
                   ELSE IF h < 0 \/ (h = 0 /\ mm < 0) THEN -abs(sec) ELSE sec
         IN  Ok(h * 3600 + mm * 60 + ss)

\* the last second a date-time can denote, in the width of the model; the
\* first one is as far before the epoch
MaxTimestamp == 200000
MinTimestamp == -MaxTimestamp

\* OffsetDateTime::from_unix_timestamp
OffsetDateTime_from_unix_timestamp(seconds) ==
    IF seconds \in MinTimestamp..MaxTimestamp
    THEN Ok([unix_timestamp |-> seconds, offset |-> UtcOffset_UTC])
    ELSE Err("ComponentRange")

\* Result::unwrap_or
unwrap_or(r, default) == IF r.status = "Ok" THEN r.value ELSE default

\* OffsetDateTime::to_offset: the same instant at another offset; it panics
\* when the local date-time at that offset is out of range
OffsetDateTime_to_offset(dt, offset) ==
    IF dt.unix_timestamp + offset \in MinTimestamp..MaxTimestamp
    THEN Ok([unix_timestamp |-> dt.unix_timestamp, offset |-> offset])
    ELSE [status |-> "Panic", value |-> "local datetime out of valid range"]

\* impl IntoDateTime for Time
datetime(t) ==
    LET OffsetDateTime_UNIX_EPOCH ==
            [unix_timestamp |-> 0, offset |-> UtcOffset_UTC]
        h == i8_try_from(i32_div(t.offset_minutes, 60))
        m == i8_try_from(i32_rem(t.offset_minutes, 60))
        offset == IF h.status = "Ok" /\ m.status = "Ok"
                  THEN unwrap_or(UtcOffset_from_hms(h.value, m.value, 0),
                                 UtcOffset_UTC)
                  ELSE UtcOffset_UTC
    IN  OffsetDateTime_to_offset(
            unwrap_or(OffsetDateTime_from_unix_timestamp(t.seconds),
                      OffsetDateTime_UNIX_EPOCH),
            offset)

\* the body of the filter_map closure of list_commit: a commit that cannot
\* be loaded gives None (unwrap_or_default); author and committer are left
\* out
convert_commit(db, id) ==
    IF ~find_commit_ok(db, id) THEN Err(id)
    ELSE LET message == MaybeLossyUtf8(db[id].message)
             time == datetime(db[id].time)
         IN  IF message.status = "Panic" THEN message
             ELSE IF time.status = "Panic" THEN time
             ELSE Ok([id |-> id, message |-> message.value,
                      short_id |-> unwrap_or_default(Ok(Object_short_id(db, id))),
                      time |-> time.value])

\* GitRepository::list_commit: revwalk()?, push_head()?, then
\* flatten().filter_map(..).collect()
list_commit(db, hd, refs) ==
    IF hd = "unborn"
    THEN Err(GitError_from(git2_Error("Reference", "UnbornBranch", "reference not found")))
    ELSE LET ids == flatten(refs.revwalk)
         IN  collect_converted([i \in DOMAIN ids |-> convert_commit(db, ids[i])])

\* Repository::find_reference(&String::from_utf8_lossy(name))
find_reference_ok(refs, name) ==
    \E i \in DOMAIN refs.references :
        /\ refs.references[i].status = "Ok"
        /\ refs.references[i].value.name = from_utf8_lossy(name)

\* the callback of tag_foreach on one tag: a tag whose reference is found
\* is pushed, any other is passed over
tag_visit(db, refs, tag) ==
    IF ~find_reference_ok(refs, tag.name) THEN Err(tag.name)
    ELSE LET name == MaybeLossyUtf8(tag.name) IN
         IF name.status = "Panic" THEN name
         ELSE Ok([name |-> name.value, target |-> tag.id,
                  target_short |-> Reference_get_short_id(db, tag.id)])

\* GitRepository::list_tag
list_tag(db, refs) ==
    collect_converted([i \in DOMAIN refs.tags |-> tag_visit(db, refs, refs.tags[i])])

---------------------------------------------------------------------------
(* The requests.                                                           *)

\* well-formed repository paths of at most n characters
RECURSIVE grow(_, _, _)
grow(S, segs, n) ==
    LET T == S \cup {x \in {p \o "/" \o s : p \in S, s \in segs} : Len(x) <= n}
    IN  IF T = S THEN S ELSE grow(T, segs, n)

IndexPaths == grow({s \in Names : Len(s) <= MaxPathLen}, Names, MaxPathLen)
Queries == grow({s \in QuerySegs : Len(s) <= MaxQueryLen}, QuerySegs, MaxQueryLen)
IndexSets == {F \in SUBSET IndexPaths : Cardinality(F) <= MaxEntries}

\* what HEAD holds for the staged paths F: the same files, or, when F has a
\* directory/file conflict (a merge in progress), one side of it
Committed(F) ==
    IF df_free(F) THEN {F}
    ELSE {F \ dirs_of(F),
          {p \in F : ~\E q \in F : starts_with(p, q \o "/")}}

\* the blobs index.add_path has written for the text files F
blobs_of(F) == blobs_with(F, {})

Init ==
    /\ \E F \in IndexSets :
        /\ index = add_paths(F)
        /\ \/ \E T \in Committed(F) :
                /\ odb = write_tree(T) @@ blobs_of(F)
                            @@ commit_with_signature("Initial commit", Time_new(0, 0))
                /\ head = tree_id("")
           \/ /\ odb = blobs_of(F)
              /\ head = "unborn"
    /\ refdb = refs_of(head, "refs/heads/main", "refs/tags/v1")
    /\ fs = TheFiles
    /\ calls = <<>>
    /\ pc = "idle"
    /\ op = "none"
    /\ arg = ""
    /\ result = Ok(<<>>)
    /\ response = NoResponse

\* a request list_index(p): GitRepository::open, then list_index
ListIndex(p) ==
    /\ pc = "idle"
    /\ pc' = "done"
    /\ op' = "list_index"
    /\ arg' = p
    /\ result' = list_index(index, p)
    /\ UNCHANGED <<index, odb, head, refdb, fs, calls, response>>

\* a request list_tree(p): GitRepository::open, then list_tree
ListTree(p) ==
    /\ pc = "idle"
    /\ pc' = "done"
    /\ op' = "list_tree"
    /\ arg' = p
    /\ result' = list_tree(odb, head, p)
    /\ UNCHANGED <<index, odb, head, refdb, fs, calls, response>>

\* the handler returns and the repository handle is dropped
Respond ==
    /\ pc = "done"
    /\ pc' = "idle"
    /\ op' = "none"
    /\ arg' = ""
    /\ result' = Ok(<<>>)
    /\ UNCHANGED <<index, odb, head, refdb, fs, calls, response>>

Next ==
    \/ \E p \in Queries : ListIndex(p)
    \/ \E p \in Queries : ListTree(p)
    \/ Respond

Spec == Init /\ [][Next]_vars

---------------------------------------------------------------------------
(* The service over repositories whose names and contents are bytes, with  *)
(* objects missing or unreadable and iterators that report errors.         *)

\* longest path of these repositories, in bytes
MaxBytePathLen == 3
\* most files such a repository holds
MaxByteEntries == 2

\* names as git stores them: bytes, "?" being no valid UTF-8
ByteNames == {"a", "?"}
BytePaths ==
    grow({s \in ByteNames : Len(s) <= MaxBytePathLen}, ByteNames, MaxBytePathLen)
ByteSets ==
    {F \in SUBSET BytePaths : Cardinality(F) <= MaxByteEntries /\ df_free(F)}
\* query paths are &str: valid UTF-8
ServiceQueries ==
    grow({s \in {"", "a"} : Len(s) <= MaxBytePathLen}, {"", "a"}, MaxBytePathLen)
\* the ids a blob is asked for: of a file, of the root tree, of a commit,
\* and the all-zero id
ServiceIds ==
    {blob_id(q) : q \in BytePaths} \cup {tree_id(""), HeadCommit, ZeroOid}

\* what may be wrong with a repository: nothing, one tree or blob missing
\* from the store or unreadable, the parent commit missing, an iterator
\* reporting an error on an item, a message or a reference name that is
\* not valid UTF-8, no commit yet
Conditions(F) ==
    {[kind |-> k, id |-> ""] :
        k \in {"none", "commit_missing", "revwalk_error", "branch_error",
               "reference_error", "bad_message", "bad_branch", "bad_tag",
               "unborn"}}
    \cup {[kind |-> k, id |-> i] :
            k \in {"missing", "corrupt"},
            i \in {tree_id(d) : d \in dirs_of(F)} \cup {blob_id(q) : q \in F}}

\* the object store of the files F under condition c
store_of(F, B, c) ==
    LET message == IF c.kind = "bad_message" THEN "?" ELSE "Initial commit"
        all == write_tree(F) @@ blobs_with(F, B) @@ commit_with_signature(message, Time_new(0, 0))
    IN  IF c.kind = "unborn" THEN blobs_with(F, B)
        ELSE IF c.kind = "missing"
        THEN [i \in DOMAIN all \ {c.id} |-> all[i]]
        ELSE IF c.kind = "corrupt"
        THEN [all EXCEPT ![c.id] = [type |-> "Corrupt"]]
        ELSE IF c.kind = "commit_missing"
        THEN [i \in DOMAIN all \ {ParentCommit} |-> all[i]]
        ELSE all

\* what the iterators of the backend yield under condition c
iterators_of(hd, c) ==
    LET branch == IF c.kind = "bad_branch" THEN "refs/heads/?" ELSE "refs/heads/main"
        tag == IF c.kind = "bad_tag" THEN "refs/tags/?" ELSE "refs/tags/v1"
        all == refs_of(hd, branch, tag)
        e == Err(git2_Error("Reference", "GenericError", "failed to read reference"))
    IN  IF c.kind = "revwalk_error"
        THEN [all EXCEPT !.revwalk = <<Ok(HeadCommit), e>>]
        ELSE IF c.kind = "branch_error"
        THEN [all EXCEPT !.branches = Append(@, e)]
        ELSE IF c.kind = "reference_error"
        THEN [all EXCEPT !.references = Append(@, e)]
        ELSE all

InitService ==
    /\ \E F \in ByteSets : \E B \in SUBSET F : \E c \in Conditions(F) :
        /\ index = add_paths(F)
        /\ odb = store_of(F, B, c)
        /\ head = IF c.kind = "unborn" THEN "unborn" ELSE tree_id("")
        /\ refdb = iterators_of(head, c)
    /\ fs = TheFiles
    /\ calls = <<>>
    /\ pc = "idle"
    /\ op = "none"
    /\ arg = ""
    /\ result = Ok(<<>>)
    /\ response = NoResponse

\* a request answered by one operation of the service: what it returns is
\* kept until the handler responds
Answer(o, a, r) ==
    /\ pc = "idle"
    /\ pc' = "done"
    /\ op' = o
    /\ arg' = a
    /\ result' = r
    /\ UNCHANGED <<index, odb, head, refdb, fs, calls, response>>

Open(location) == Answer("open", location, open(fs, location))
GetBlob(oid) == Answer("get_blob", oid, get_blob(odb, oid))
ListBranch == Answer("list_branch", "", list_branch(odb, refdb))
ListCommit == Answer("list_commit", "", list_commit(odb, head, refdb))
ListReference == Answer("list_reference", "", list_reference(odb, refdb))
ListTag == Answer("list_tag", "", list_tag(odb, refdb))

NextService ==
    \/ \E l \in Locations : Open(l)
    \/ \E i \in ServiceIds : GetBlob(i)
    \/ ListBranch
    \/ ListCommit
    \/ ListReference
    \/ ListTag
    \/ \E q \in ServiceQueries : ListIndex(q)
    \/ \E q \in ServiceQueries : ListTree(q)
    \/ Respond

SpecService == InitService /\ [][NextService]_vars

---------------------------------------------------------------------------
(* Requests running at the same time, each list_index / list_tree call     *)
(* taken one closure call at a time.  A call owns its locals: the          *)
(* normalized path, the depth, the position in the index, the HashSet, the *)
(* Vec collected so far, and the entries the walk has still to visit.      *)

\* longest path of the repositories listed concurrently
MaxConcPathLen == 4
\* most entries of their index
MaxConcEntries == 2
\* requests in flight at once
NCalls == 2

CallIds == 1..NCalls
ConcPaths == grow({s \in Names : Len(s) <= MaxConcPathLen}, Names, MaxConcPathLen)
ConcSets ==
    {F \in SUBSET ConcPaths : Cardinality(F) <= MaxConcEntries /\ df_free(F)}
ConcQueries == {"", "a", "a/a"}

IdleCall ==
    [pc |-> "idle", op |-> "none", arg |-> "", path |-> "", depth |-> 0,
     i |-> 0, set |-> {}, vec |-> <<>>, todo |-> <<>>, result |-> Ok(<<>>)]

\* the call returns r: its locals are dropped
Returning(call, r) ==
    [IdleCall EXCEPT !.pc = "done", !.op = call.op, !.arg = call.arg,
                     !.result = r]

HashSet_kept(cs, c) == UNION {cs[k].set : k \in DOMAIN cs}
\* let mut set = HashSet::<String>::new(): made by the call, empty
HashSet_new(cs, c) == {}

seen_set_shared(cs, c) == UNION {cs[k].set : k \in DOMAIN cs}
\* the set the closure of call c captures: the one the call made
seen_set(cs, c) == cs[c].set

\* the entries of one tree as the walk will visit them, each with the
\* prefix the callback is given
walk_items(entries, root) ==
    [k \in DOMAIN entries |-> [root |-> root, entry |-> entries[k]]]

InitConc ==
    /\ \E F \in ConcSets :
        /\ index = add_paths(F)
        /\ odb = write_tree(F) @@ blobs_of(F)
                    @@ commit_with_signature("Initial commit", Time_new(0, 0))
    /\ head = tree_id("")
    /\ refdb = refs_of(head, "refs/heads/main", "refs/tags/v1")
    /\ fs = TheFiles
    /\ calls = [c \in CallIds |-> IdleCall]
    /\ pc = "idle"
    /\ op = "none"
    /\ arg = ""
    /\ result = Ok(<<>>)
    /\ response = NoResponse

\* a step of call c that leaves it as the record next
CallStep(c, next) ==
    /\ calls' = [calls EXCEPT ![c] = next]
    /\ UNCHANGED <<index, odb, head, pc, op, arg, result, refdb, fs, response>>

\* list_index is entered: path, depth and set are made
BeginIndex(c, p) ==
    /\ calls[c].pc = "idle"
    /\ CallStep(c, [IdleCall EXCEPT
                        !.pc = "scan", !.op = "list_index", !.arg = p,
                        !.path = strip_suffix(p),
                        !.depth = depth_of(strip_suffix(p)),
                        !.i = 1,
                        !.set = HashSet_new(calls, c)])

\* the filter_map closure is called on the next entry of the index
ScanStep(c) ==
    LET call == calls[c] IN
    /\ call.pc = "scan"
    /\ call.i <= Len(index)
    /\ LET v == index_visit(call.path, call.depth, seen_set(calls, c),
                            index[call.i])
       IN  IF v.panic
           THEN CallStep(c, Returning(call, [status |-> "Panic", value |-> call.vec]))
           ELSE CallStep(c, [call EXCEPT !.i = @ + 1, !.set = v.set,
                                         !.vec = collect(@, v.out)])

\* the iterator is exhausted: collect() gives the Vec, Ok(..) is returned
ScanEnd(c) ==
    LET call == calls[c] IN
    /\ call.pc = "scan"
    /\ call.i > Len(index)
    /\ CallStep(c, Returning(call, Ok(call.vec)))

\* list_tree is entered: HEAD, its tree, the empty path, or the walk begins
BeginTree(c, p) ==
    LET path == strip_suffix(p)
        call == [IdleCall EXCEPT !.op = "list_tree", !.arg = p, !.path = path]
    IN
    /\ calls[c].pc = "idle"
    /\ IF head = "unborn" \/ ~find_tree_ok(odb, head) \/ is_root_query(path)
       THEN CallStep(c, Returning(call, list_tree(odb, head, p)))
       ELSE CallStep(c, [call EXCEPT !.pc = "walk",
                                     !.todo = walk_items(odb[head].entries, "")])

\* the callback of the walk is called on the next entry in pre-order
WalkStep(c) ==
    LET call == calls[c] IN
    /\ call.pc = "walk"
    /\ call.todo # <<>>
    /\ LET item == Head(call.todo)
           v == tree_visit(odb, call.path, item.root, item.entry, call.vec)
       IN  IF v.ret = "Panic"
           THEN CallStep(c, Returning(call, [status |-> "Panic", value |-> <<>>]))
           ELSE IF v.ret = "Abort"
           THEN CallStep(c, Returning(call, Ok(v.vec)))
           ELSE IF v.ret = "Skip" \/ item.entry.kind # "Tree"
           THEN CallStep(c, [call EXCEPT !.vec = v.vec, !.todo = Tail(@)])
           ELSE IF ~find_tree_ok(odb, item.entry.id)
           THEN CallStep(c, Returning(call, Ok(v.vec)))
           ELSE CallStep(c, [call EXCEPT
                    !.vec = v.vec,
                    !.todo = walk_items(odb[item.entry.id].entries,
                                        item.root \o item.entry.name \o "/")
                                \o Tail(@)])

\* the walk has visited every entry: Ok(vec) is returned
WalkEnd(c) ==
    LET call == calls[c] IN
    /\ call.pc = "walk"
    /\ call.todo = <<>>
    /\ CallStep(c, Returning(call, Ok(call.vec)))

\* the handler of call c responds
Return(c) ==
    /\ calls[c].pc = "done"
    /\ CallStep(c, IdleCall)

NextConc ==
    \E c \in CallIds :
        \/ \E p \in ConcQueries : BeginIndex(c, p)
        \/ ScanStep(c)
        \/ ScanEnd(c)
        \/ \E p \in ConcQueries : BeginTree(c, p)
        \/ WalkStep(c)
        \/ WalkEnd(c)
        \/ Return(c)

SpecConc == InitConc /\ [][NextConc]_vars

---------------------------------------------------------------------------
(* What the properties speak of, stated on the characters of the paths and *)
(* on the stored objects, without the operators of the service.            *)

\* the query path of the request in progress, one trailing '/' removed
QueryPath ==
    IF Len(arg) > 0 /\ SubSeq(arg, Len(arg), Len(arg)) = "/"
    THEN SubSeq(arg, 1, Len(arg) - 1)
    ELSE arg

Returned(o) == pc = "done" /\ op = o

Slashes(p) == {i \in 1..Len(p) : SubSeq(p, i, i) = "/"}
\* the last segment of p
LastSeg(p) ==
    LET from == IF Slashes(p) = {} THEN 0
                ELSE CHOOSE i \in Slashes(p) : \A j \in Slashes(p) : j <= i
    IN  SubSeq(p, from + 1, Len(p))
\* the directory prefixes of p: what stands before each of its slashes
Ancestors(p) == {SubSeq(p, 1, i - 1) : i \in Slashes(p)}
\* q is P followed by exactly one more segment
IsChild(P, q) ==
    IF P = "" THEN Slashes(q) = {}
    ELSE /\ Len(q) > Len(P)
         /\ SubSeq(q, 1, Len(P) + 1) = P \o "/"
         /\ \A i \in Slashes(q) : i <= Len(P) + 1

IndexPathSet == {e.path : e \in Range(index)}
\* index paths that are immediate children of P
FileChildren(P) == {p \in IndexPathSet : IsChild(P, p)}
\* directories that are immediate children of P and hold an index path
DirChildren(P) ==
    {d \in UNION {Ancestors(p) : p \in IndexPathSet} : IsChild(P, d)}

\* every entry of the tree with id t and of its subtrees, with the prefix
\* it lives under
RECURSIVE EntriesBelow(_, _)
EntriesBelow(t, prefix) ==
    IF t \notin DOMAIN odb \/ odb[t].type # "Tree" THEN {}
    ELSE UNION {
            {[root |-> prefix, entry |-> e]}
              \cup (IF e.kind = "Tree"
                    THEN EntriesBelow(e.id, prefix \o e.name \o "/")
                    ELSE {})
            : e \in Range(odb[t].entries)}
HeadEntries == IF head = "unborn" THEN {} ELSE EntriesBelow(head, "")
FullPath(x) == x.root \o x.entry.name
\* the index holds exactly the files of the HEAD commit's tree
IndexMatchesHead ==
    /\ head # "unborn"
    /\ IndexPathSet = {FullPath(x) : x \in {y \in HeadEntries : y.entry.kind # "Tree"}}

\* the items of a tree listing are the entries es, in their order, under root r
IsListingOf(items, es, r) ==
    /\ Len(items) = Len(es)
    /\ \A i \in 1..Len(es) :
        /\ items[i].root = r
        /\ items[i].name = es[i].name
        /\ items[i].id = es[i].id
        /\ items[i].kind = es[i].kind

---------------------------------------------------------------------------
(* C1..C4: what a listing holds.                                           *)

\* C1: list_index(P), for a query path P that is empty or names a directory
\* (no index entry has the path P), returns exactly the immediate children
\* of P: one file entry for every index path that is P plus one segment,
\* one directory node for every directory that is P plus one segment and
\* holds an index path, and nothing else; a directory node's name is the last
\* segment of its path, a file entry's name the last segment of its path.
C1_IndexListsImmediateChildren ==
    (Returned("list_index") /\ QueryPath \notin IndexPathSet) =>
        /\ result.status = "Ok"
        /\ \A f \in FileChildren(QueryPath) :
            Cardinality({i \in 1..Len(result.value) :
                            /\ result.value[i].kind = "Entry"
                            /\ result.value[i].path = f
                            /\ result.value[i].name = LastSeg(f)
                            /\ result.value[i].id = blob_id(f)}) = 1
        /\ \A d \in DirChildren(QueryPath) :
            Cardinality({i \in 1..Len(result.value) :
                            /\ result.value[i].kind = "Directory"
                            /\ result.value[i].path = d
                            /\ result.value[i].name = LastSeg(d)}) = 1
        /\ Len(result.value) = Cardinality(FileChildren(QueryPath))
                                + Cardinality(DirChildren(QueryPath))

\* a listing of directory "a" that holds a file, a directory node standing
\* for a deeper path, and leaves out "ab/a", which only shares the prefix
C1_Witness ==
    /\ Returned("list_index") /\ arg = "a"
    /\ IndexPathSet = {"a/a/a", "a/ab", "ab/a"}
    /\ Len(result.value) = 2

\* C2: list_tree(P), when the normalized P is the full path of a subtree of
\* the HEAD commit's tree, returns exactly the entries of that subtree, in
\* the order the subtree stores them, each with root = P + "/".
C2_TreeListsSubtree ==
    Returned("list_tree") =>
        \A x \in HeadEntries :
            (FullPath(x) = QueryPath /\ x.entry.kind = "Tree") =>
                /\ result.status = "Ok"
                /\ IsListingOf(result.value, odb[x.entry.id].entries,
                               QueryPath \o "/")

\* the subtree "a" listed while it has a sibling and a subtree of its own
C2_Witness ==
    /\ Returned("list_tree") /\ arg = "a"
    /\ {FullPath(x) : x \in HeadEntries} = {"a", "a/a", "a/a/a", "a/ab", "ab"}
    /\ result.status = "Ok"
    /\ Len(result.value) = 2

\* C3: list_tree(P), when P is the full path of a blob, returns a list of
\* one element, that entry, with root its parent directory prefix (empty at
\* top level, otherwise ending in '/').
C3_TreeListsBlobAlone ==
    Returned("list_tree") =>
        \A x \in HeadEntries :
            (FullPath(x) = QueryPath /\ x.entry.kind # "Tree") =>
                /\ result.status = "Ok"
                /\ IsListingOf(result.value, <<x.entry>>, x.root)
                /\ result.value[1].root \o result.value[1].name = QueryPath
                /\ Slashes(result.value[1].name) = {}
                /\ \/ result.value[1].root = ""
                   \/ LastSeg(result.value[1].root) = ""

\* a blob below a directory listed by its path while the tree has siblings
C3_Witness ==
    /\ Returned("list_tree") /\ arg = "a/ab"
    /\ Cardinality(HeadEntries) >= 3
    /\ Len(result.value) = 1
    /\ result.value[1].id = blob_id("a/ab")
    /\ result.value[1].kind = "Blob"
    /\ result.value[1].name = "ab"
    /\ result.value[1].root = "a/"

\* C4: the empty path lists the root level only: list_tree("") returns the
\* entries of the root tree, each with root = ""; list_index("") returns one
\* file entry per one-segment index path and one directory node per distinct
\* first segment of the longer paths; when the index holds the files of the
\* HEAD tree the two lists have the same length.
C4_EmptyPathListsRoot ==
    /\ (Returned("list_tree") /\ arg = "" /\ head # "unborn") =>
            /\ result.status = "Ok"
            /\ IsListingOf(result.value, odb[head].entries, "")
            /\ IndexMatchesHead =>
                    Len(result.value) = Len(list_index(index, "").value)
    /\ (Returned("list_index") /\ arg = "") =>
            /\ result.status = "Ok"
            /\ {[kind |-> it.kind, path |-> it.path] : it \in Range(result.value)}
                = {[kind |-> "Entry", path |-> p] :
                        p \in {q \in IndexPathSet : Slashes(q) = {}}}
                  \cup {[kind |-> "Directory", path |-> SubSeq(p, 1, i - 1)] :
                        <<p, i>> \in {<<q, j>> \in IndexPathSet \X (1..MaxPathLen) :
                                        /\ j \in Slashes(q)
                                        /\ \A k \in Slashes(q) : j <= k}}
            /\ IndexMatchesHead =>
                    Len(result.value) = Len(list_tree(odb, head, "").value)

\* the root of a repository with a file and a two-level directory is listed
C4_Witness ==
    /\ Returned("list_tree") /\ arg = ""
    /\ IndexMatchesHead
    /\ IndexPathSet = {"a/a/a", "a/ab", "ab"}
    /\ Len(result.value) = 2

---------------------------------------------------------------------------
(* C5..C10: duplicates, depth, order, exact matches, normalization.        *)

ItemPath(o, it) == IF o = "list_index" THEN it.path ELSE it.root \o it.name
ItemIsFile(o, it) ==
    IF o = "list_index" THEN it.kind = "Entry" ELSE it.kind # "Tree"

\* C5: with pairwise distinct full paths in the source, neither list_tree
\* nor list_index returns two nodes (file entry or directory node, in any
\* combination) with the same full path.
C5_NoTwoNodesWithSamePath ==
    ( /\ pc = "done" /\ op \in {"list_index", "list_tree"}
      /\ result.status = "Ok"
      /\ Cardinality(IndexPathSet) = Len(index)
      /\ Cardinality({FullPath(x) : x \in HeadEntries}) = Cardinality(HeadEntries) )
    => \A i, j \in 1..Len(result.value) :
            i # j => ItemPath(op, result.value[i]) # ItemPath(op, result.value[j])

\* C6: in the result of one list_index call a directory path is the path of
\* at most one directory node, however many index entries lie below it.
C6_DirectoryNodeAtMostOnce ==
    Returned("list_index") =>
        \A i, j \in 1..Len(result.value) :
            ( /\ i # j
              /\ result.value[i].kind = "Directory"
              /\ result.value[j].kind = "Directory" )
            => result.value[i].path # result.value[j].path

\* three index entries lie below the one directory node returned
C6_Witness ==
    /\ Returned("list_index") /\ arg = ""
    /\ IndexPathSet = {"a/a", "a/a/a", "a/ab"}
    /\ Len(result.value) = 1
    /\ result.value[1].kind = "Directory"

\* C7 as stated: every entry returned by list_tree or list_index for query
\* path P has a full path that is P followed by exactly one more segment.
C7_EveryEntryIsStrictChild ==
    (pc = "done" /\ op \in {"list_index", "list_tree"} /\ result.status = "Ok") =>
        \A it \in Range(result.value) : IsChild(QueryPath, ItemPath(op, it))

\* C7 amended: every entry returned for query path P is P followed by
\* exactly one more segment, or it is a file entry (an index entry, a
\* non-tree tree entry) whose full path is P itself.
C7_EntryIsChildOrExactFile ==
    (pc = "done" /\ op \in {"list_index", "list_tree"} /\ result.status = "Ok") =>
        \A it \in Range(result.value) :
            \/ IsChild(QueryPath, ItemPath(op, it))
            \/ ItemPath(op, it) = QueryPath /\ ItemIsFile(op, it)

\* a blob is listed by its own path: the one entry returned has the query
\* path as its full path, its siblings are not returned
C7_Witness ==
    /\ Returned("list_tree") /\ arg = "a/a"
    /\ IndexMatchesHead
    /\ IndexPathSet = {"a/a", "a/ab", "ab"}
    /\ result.status = "Ok"
    /\ Len(result.value) = 1
    /\ result.value[1].root \o result.value[1].name = "a/a"

\* position in the index an item of a list_index result stands for: the
\* entry of a file entry, the first entry below a directory node; 0 if none
PositionOf(it) ==
    LET at == IF it.kind = "Entry"
              THEN {i \in DOMAIN index : index[i].path = it.path}
              ELSE {i \in DOMAIN index :
                        /\ Len(index[i].path) > Len(it.path)
                        /\ SubSeq(index[i].path, 1, Len(it.path) + 1) = it.path \o "/"}
    IN  IF at = {} THEN 0 ELSE CHOOSE i \in at : \A j \in at : i <= j

\* the index of Scenario A listed at "a"
ScenarioA ==
    list_index(<<[path |-> "a/b/c", id |-> blob_id("a/b/c")],
                 [path |-> "a/b/d", id |-> blob_id("a/b/d")],
                 [path |-> "a/x", id |-> blob_id("a/x")]>>, "a")

\* C8: the result of list_index keeps the iteration order of the index: the
\* file entries stand in the order of their index entries and a directory
\* node stands where the first index entry below it stands; the index
\* [a/b/c, a/b/d, a/x] listed at "a" gives [DirectoryNode(a/b), Entry(a/x)].
C8_IndexOrderKept ==
    /\ Returned("list_index") =>
        /\ \A k \in 1..Len(result.value) : PositionOf(result.value[k]) > 0
        /\ \A k, l \in 1..Len(result.value) :
            k < l => PositionOf(result.value[k]) < PositionOf(result.value[l])
    /\ ScenarioA
        = Ok(<<GitIndexDirectory("b", "a/b"),
               [kind |-> "Entry", id |-> blob_id("a/x"),
                name |-> "x", path |-> "a/x"]>>)

\* the entry below a/a comes first, the file a/ab after it: the directory
\* node is returned before the file entry
C8_Witness ==
    /\ Returned("list_index") /\ arg = "a"
    /\ IndexPathSet = {"a/a/a", "a/ab", "ab"}
    /\ Len(result.value) = 2
    /\ result.value[1].kind = "Directory" /\ result.value[1].path = "a/a"
    /\ result.value[2].kind = "Entry" /\ result.value[2].path = "a/ab"

\* C9: in list_index an index entry whose path is the query path is emitted
\* as a file entry and the scan goes on: the immediate children found below
\* the query path are in the result as well; list_tree returns only what
\* the one entry matching the query path gives.
C9_ExactMatchDoesNotEndScan ==
    /\ (Returned("list_index") /\ QueryPath \in IndexPathSet) =>
        /\ result.status = "Ok"
        /\ Cardinality({i \in 1..Len(result.value) :
                            /\ result.value[i].kind = "Entry"
                            /\ result.value[i].path = QueryPath}) = 1
        /\ \A f \in FileChildren(QueryPath) :
            \E it \in Range(result.value) : it.kind = "Entry" /\ it.path = f
        /\ \A d \in DirChildren(QueryPath) :
            \E it \in Range(result.value) : it.kind = "Directory" /\ it.path = d
        /\ Len(result.value) = 1 + Cardinality(FileChildren(QueryPath))
                                 + Cardinality(DirChildren(QueryPath))
    /\ Returned("list_tree") =>
        \A x \in HeadEntries :
            FullPath(x) = QueryPath =>
                Len(result.value) = IF x.entry.kind = "Tree"
                                    THEN Len(odb[x.entry.id].entries)
                                    ELSE 1

\* the index of a merge with a directory/file conflict: the entry "a" and
\* the entry "a/a" below it are both returned
C9_Witness ==
    /\ Returned("list_index") /\ arg = "a"
    /\ IndexPathSet = {"a", "a/a", "ab"}
    /\ Len(result.value) = 2
    /\ result.value[1].path = "a" /\ result.value[2].path = "a/a"

\* the argument without its last n characters
ArgLess(n) == SubSeq(arg, 1, Len(arg) - n)
\* the argument is a P (not empty, no trailing '/') followed by tail
ArgEndsIn(tail) ==
    /\ Len(arg) > Len(tail)
    /\ SubSeq(arg, Len(arg) - Len(tail) + 1, Len(arg)) = tail
    /\ SubSeq(arg, Len(arg) - Len(tail), Len(arg) - Len(tail)) # "/"

\* the operation of the last request, applied to the path q
Listing(q) ==
    IF op = "list_index" THEN list_index(index, q) ELSE list_tree(odb, head, q)

\* C10: for every non-empty P without a trailing '/', list_tree(P + "/")
\* equals list_tree(P) and list_index(P + "/") equals list_index(P); "/"
\* is listed as the empty path; only one '/' is removed: P + "//" is
\* listed as the path P + "/", which no entry and no directory has.
C10_OneTrailingSlashRemoved ==
    (pc = "done" /\ op \in {"list_index", "list_tree"}) =>
        /\ ArgEndsIn("/") => result = Listing(ArgLess(1))
        /\ (ArgEndsIn("//") /\ (op = "list_index" \/ head # "unborn"))
                => result = Ok(<<>>)
        /\ arg = "/" => result = Listing("")

\* a directory listed with one trailing '/' gives its children
C10_Witness ==
    /\ Returned("list_tree") /\ arg = "a/"
    /\ result.status = "Ok"
    /\ Len(result.value) = 2

---------------------------------------------------------------------------
(* C11..C13: no match, the two sources side by side, repeated calls.       *)

\* the index has an entry at P or below the directory P
IndexKnows(P) ==
    \/ P \in IndexPathSet
    \/ P \in UNION {Ancestors(p) : p \in IndexPathSet}
    \/ P = "" /\ IndexPathSet # {}
\* the HEAD tree has an entry at P, or P is its root and holds an entry
HeadKnows(P) ==
    \/ P \in {FullPath(x) : x \in HeadEntries}
    \/ P = "" /\ HeadEntries # {}

\* C11: a query path that is the path of no entry and the directory prefix
\* of no entry gives a successful empty list: list_index when no index path
\* is the query path or lies below it, list_tree (HEAD has a commit) when no
\* entry of the HEAD tree has the query path as its full path.
C11_NoMatchGivesEmptyList ==
    /\ (Returned("list_index") /\ ~IndexKnows(QueryPath)) => result = Ok(<<>>)
    /\ (Returned("list_tree") /\ head # "unborn" /\ ~HeadKnows(QueryPath))
            => result = Ok(<<>>)

\* the walk goes down into "a", which the query path starts with, finds no
\* "a/ab" there and passes the file "ab": nothing is returned
C11_Witness ==
    /\ Returned("list_tree") /\ arg = "a/ab"
    /\ IndexMatchesHead
    /\ IndexPathSet = {"a/a", "ab"}
    /\ result = Ok(<<>>)

\* the full paths a listing holds, each with whether it stands for a
\* directory
Shape(o, r) ==
    {[path |-> ItemPath(o, it), directory |-> ~ItemIsFile(o, it)] :
        it \in Range(r.value)}

\* C12: when the index holds exactly the files of the HEAD commit's tree,
\* list_tree(P) and list_index(P) succeed for every query path P and return
\* the same set of full paths, and a path is a directory node of the index
\* listing exactly when it is a tree entry of the tree listing.
C12_TreeAndIndexAgree ==
    (pc = "done" /\ op \in {"list_index", "list_tree"} /\ IndexMatchesHead) =>
        LET other == IF op = "list_index" THEN "list_tree" ELSE "list_index"
            theirs == IF op = "list_index"
                      THEN list_tree(odb, head, arg)
                      ELSE list_index(index, arg)
        IN  /\ result.status = "Ok"
            /\ theirs.status = "Ok"
            /\ Shape(op, result) = Shape(other, theirs)

\* the directory "a/a" next to a file, listed from the index: one entry,
\* as the subtree a/a holds
C12_Witness ==
    /\ Returned("list_index") /\ arg = "a"
    /\ IndexMatchesHead
    /\ IndexPathSet = {"a/a/a", "a/ab"}
    /\ Shape("list_index", result)
            = {[path |-> "a/a", directory |-> TRUE],
               [path |-> "a/ab", directory |-> FALSE]}

\* C13: two calls of list_tree or list_index with the same argument on the
\* repository, one after the other or overlapping, return identical
\* results, element for element and in the same order: whenever both have
\* returned, their results are equal.
C13_SameCallSameResult ==
    \A c, d \in DOMAIN calls :
        ( /\ calls[c].pc = "done" /\ calls[d].pc = "done"
          /\ calls[c].op = calls[d].op
          /\ calls[c].arg = calls[d].arg )
        => calls[c].result = calls[d].result

\* both calls have listed the index at the root, where two entries lie
\* below the one directory, and hold the same one directory node
C13_Witness ==
    /\ IndexPathSet = {"a/a", "a/ab"}
    /\ \A c \in DOMAIN calls :
        /\ calls[c].pc = "done"
        /\ calls[c].op = "list_index" /\ calls[c].arg = ""
        /\ Len(calls[c].result.value) = 1
        /\ calls[c].result.value[1].kind = "Directory"

---------------------------------------------------------------------------
(* C14..C19: failures of the backend and what the service makes of them.   *)

\* the last request failed with this variant of GitError
FailedWith(v) == result.status = "Err" /\ result.value.variant = v

\* C14: get_blob(id) fails with ObjectNotFound when the store holds no
\* object with that id, the all-zero id included; it fails with Unhandled
\* when the object is there but cannot be read or is no blob; a missing
\* object is never reported as Unhandled or as a success, and ObjectNotFound
\* is reported for a missing object only.
C14_MissingBlobIsObjectNotFound ==
    Returned("get_blob") =>
        /\ arg \notin DOMAIN odb => FailedWith("ObjectNotFound")
        /\ arg = ZeroOid => FailedWith("ObjectNotFound")
        /\ (arg \in DOMAIN odb /\ odb[arg].type # "Blob") => FailedWith("Unhandled")
        /\ FailedWith("ObjectNotFound") => arg \notin DOMAIN odb

\* the index names the file "a" and its blob is missing from the store
C14_Witness ==
    /\ Returned("get_blob") /\ arg = "blob:a"
    /\ "a" \in IndexPathSet
    /\ arg \notin DOMAIN odb
    /\ FailedWith("ObjectNotFound")

\* C15: open(location) succeeds when the backend opens a repository there;
\* when the backend answers NotFound with class Os or Repository (the
\* location holds no repository) it fails with RepositoryNotFound carrying
\* the location passed in; every other failure of the backend is reported
\* as an error that is not RepositoryNotFound.
C15_OpenReportsRepositoryNotFound ==
    Returned("open") =>
        LET answer == fs[arg]
            absent == /\ answer.status = "Err"
                      /\ answer.value.code = "NotFound"
                      /\ answer.value.class \in {"Os", "Repository"}
        IN  /\ answer.status = "Ok" => result.status = "Ok"
            /\ absent => result = Err([variant |-> "RepositoryNotFound",
                                       path |-> arg])
            /\ (answer.status = "Err" /\ ~absent) =>
                    /\ result.status = "Err"
                    /\ result.value.variant # "RepositoryNotFound"

\* a directory without repository metadata is opened
C15_Witness ==
    /\ Returned("open") /\ arg = "/Repository/NotFound"
    /\ FailedWith("RepositoryNotFound")
    /\ result.value.path = "/Repository/NotFound"

\* the bytes b are valid UTF-8
ValidUtf8(b) == \A i \in 1..Len(b) : SubSeq(b, i, i) # "?"
\* t is b with every invalid byte replaced by U+FFFD
IsLossyTextOf(t, b) ==
    /\ Len(t) = Len(b)
    /\ \A i \in 1..Len(b) :
        SubSeq(t, i, i) = IF SubSeq(b, i, i) = "?" THEN "#" ELSE SubSeq(b, i, i)

\* C16: the conversion of bytes to MaybeLossyUtf8 yields a value for every
\* byte sequence: the bytes themselves when they are valid UTF-8, the text
\* with the invalid sequences replaced when they are not.  It is stated for
\* the paths of the index, which list_index converts entry by entry.
C16_ConversionIsTotal ==
    Returned("list_index") =>
        \A e \in Range(index) :
            LET text == MaybeLossyUtf8(e.path) IN
            /\ text.status = "Ok"
            /\ ValidUtf8(e.path) => text.value = e.path
            /\ IsLossyTextOf(text.value, e.path)

\* C17: every operation of the service ends by returning a value or a
\* GitError, whatever bytes the repository holds and whatever is asked.
C17_NoOperationPanics ==
    pc = "done" => result.status \in {"Ok", "Err"}

\* the object with this id can be loaded as a tree
Loadable(t) == t \in DOMAIN odb /\ odb[t].type = "Tree"
\* every name of the repository is valid UTF-8
TextRepository ==
    /\ \A e \in Range(index) : ValidUtf8(e.path)
    /\ \A x \in HeadEntries : ValidUtf8(x.entry.name)

\* C18: list_tree returns an error when the entry the query names is a tree
\* that cannot be loaded and when the walk fails on a tree it has to go
\* through; it returns a successful empty list only when no entry has the
\* query path or the matched tree is empty.
C18_BackendFailureIsAnError ==
    (Returned("list_tree") /\ head # "unborn" /\ Loadable(head) /\ TextRepository) =>
        /\ \A x \in HeadEntries :
            ( /\ x.entry.kind = "Tree"
              /\ ~Loadable(x.entry.id)
              /\ \/ FullPath(x) = QueryPath
                 \/ /\ Len(QueryPath) > Len(FullPath(x))
                    /\ SubSeq(QueryPath, 1, Len(FullPath(x)) + 1)
                            = FullPath(x) \o "/" )
            => result.status = "Err"
        /\ result = Ok(<<>>) =>
            \A x \in HeadEntries :
                FullPath(x) = QueryPath =>
                    /\ x.entry.kind = "Tree"
                    /\ Loadable(x.entry.id)
                    /\ odb[x.entry.id].entries = <<>>

\* the backend failed on an item while the last operation enumerated
ItemFailed ==
    \/ /\ op = "list_commit"
       /\ \E i \in DOMAIN refdb.revwalk :
            \/ refdb.revwalk[i].status = "Err"
            \/ refdb.revwalk[i].value \notin DOMAIN odb
    \/ /\ op = "list_branch"
       /\ \E i \in DOMAIN refdb.branches : refdb.branches[i].status = "Err"
    \/ /\ op = "list_reference"
       /\ \E i \in DOMAIN refdb.references : refdb.references[i].status = "Err"
    \/ /\ op = "list_tag"
       /\ \E i \in DOMAIN refdb.tags :
            \A j \in DOMAIN refdb.references :
                \/ refdb.references[j].status = "Err"
                \/ refdb.references[j].value.name # refdb.tags[i].name

\* C19: when the backend fails on one item while list_commit, list_branch,
\* list_reference or list_tag runs, the operation returns an error, not a
\* successful list without that item.
C19_NoItemSilentlyDropped ==
    (pc = "done" /\ ItemFailed) => result.status = "Err"

---------------------------------------------------------------------------
(* C20: requests running at the same time.                                 *)

\* the directories below P that the index entries before position i lie in
SeenBefore(P, i) ==
    {d \in UNION {Ancestors(index[j].path) : j \in 1..(i - 1)} : IsChild(P, d)}

\* C20: under every interleaving of the steps of concurrent list_index and
\* list_tree calls, a call that has returned holds the result the operation
\* gives when it runs alone on the repository, and the seen-directory set
\* of a list_index call holds exactly the directories its own scan has
\* met so far: no other call has written to it.
C20_CallsDoNotInterfere ==
    \A c \in DOMAIN calls :
        /\ calls[c].pc = "done" =>
                calls[c].result = IF calls[c].op = "list_index"
                                  THEN list_index(index, calls[c].arg)
                                  ELSE list_tree(odb, head, calls[c].arg)
        /\ calls[c].pc = "scan" =>
                calls[c].set = SeenBefore(calls[c].path, calls[c].i)

\* one call is in the middle of its scan of the root, with the directory
\* "a" seen, while the other has scanned the directory "a" and returned
\* its two files
C20_Witness ==
    /\ IndexPathSet = {"a/a", "a/ab"}
    /\ calls[1].pc = "scan" /\ calls[1].arg = "" /\ calls[1].i = 2
    /\ calls[1].set = {"a"}
    /\ calls[2].pc = "done" /\ calls[2].op = "list_index" /\ calls[2].arg = "a"
    /\ Len(calls[2].result.value) = 2

---------------------------------------------------------------------------
(* Commit times: list_commit on a repository whose HEAD commit carries a   *)
(* time chosen at and around every limit of the conversion.                *)

\* the seconds of a signature are the limits of the date-times, the epoch,
\* and the values an hour and the largest offset away from the limits; the
\* offsets, in minutes, lie around the limits of i8 hours, of the hours and
\* minutes of an offset, and of the sign
InitTime ==
    /\ LET LargestOffset == 25 * 3600 + 59 * 60
           GitSeconds ==
               {MinTimestamp - 1, MinTimestamp, MinTimestamp + 3600,
                MinTimestamp + LargestOffset, -1, 0, 1,
                MaxTimestamp - LargestOffset, MaxTimestamp - 3600,
                MaxTimestamp - 1, MaxTimestamp, MaxTimestamp + 1}
           GitOffsets ==
               {-7740, -7680, -7679, -1560, -1559, -1500, -1440, -721, -90,
                -60, -59, -1, 0, 1, 59, 60, 90, 330, 1440, 1500, 1559, 1560,
                7679, 7680}
       IN  \E sec \in GitSeconds : \E o \in GitOffsets :
            odb = write_tree({})
                    @@ commit_with_signature("Initial commit", Time_new(sec, o))
    /\ index = add_paths({})
    /\ head = tree_id("")
    /\ refdb = refs_of(head, "refs/heads/main", "refs/tags/v1")
    /\ fs = TheFiles
    /\ calls = <<>>
    /\ pc = "idle"
    /\ op = "none"
    /\ arg = ""
    /\ result = Ok(<<>>)
    /\ response = NoResponse

NextTime ==
    \/ ListCommit
    \/ Respond

SpecTime == InitTime /\ [][NextTime]_vars

---------------------------------------------------------------------------
(* Object ids as text (wit/src/service/git/model.rs).                      *)

\* the number of hex digits of an id written out, in the width of the model
OidHexLen == 3

HexLower == "0123456789abcdef"
\* the value of a hex digit, upper or lower case; -1 for any other character
from_hex(c) ==
    LET HexUpper == "0123456789ABCDEF" IN
    IF \E i \in 1..Len(HexLower) : SubSeq(HexLower, i, i) = c
    THEN (CHOOSE i \in 1..Len(HexLower) : SubSeq(HexLower, i, i) = c) - 1
    ELSE IF \E i \in 1..Len(HexUpper) : SubSeq(HexUpper, i, i) = c
    THEN (CHOOSE i \in 1..Len(HexUpper) : SubSeq(HexUpper, i, i) = c) - 1
    ELSE -1

\* Oid::from_str: the string is empty, too long or holds a character that is
\* no hex digit, or it is the beginning of an id whose other digits are zero
Oid_from_str(value) ==
    IF Len(value) = 0
    THEN Err(git2_Error("Invalid", "GenericError", "unable to parse OID - too short"))
    ELSE IF Len(value) > OidHexLen
    THEN Err(git2_Error("Invalid", "GenericError", "unable to parse OID - too long"))
    ELSE IF \E i \in 1..Len(value) : from_hex(SubSeq(value, i, i)) < 0
    THEN Err(git2_Error("Invalid", "GenericError",
                        "unable to parse OID - contains invalid characters"))
    ELSE Ok([i \in 1..OidHexLen |->
                IF i <= Len(value) THEN from_hex(SubSeq(value, i, i)) ELSE 0])

\* impl Display for Oid: the digits of the id in lower case
RECURSIVE Oid_fmt(_)
Oid_fmt(oid) ==
    IF oid = <<>> THEN ""
    ELSE SubSeq(HexLower, Head(oid) + 1, Head(oid) + 1) \o Oid_fmt(Tail(oid))

\* GitOidVisitor::visit_str: the id, or a custom error of the deserializer
visit_str(value) ==
    LET r == Oid_from_str(value) IN
    IF r.status = "Ok" THEN r
    ELSE Err([class |-> r.value.class, code |-> r.value.code,
              message |-> r.value.message])

\* impl Deserialize for GitOid, impl Serialize for GitOid
GitOid_deserialize(value) == visit_str(value)
GitOid_serialize(oid) == Oid_fmt(oid)

---------------------------------------------------------------------------
(* The routers (wit/src/router/api.rs, wit/src/router/git.rs).             *)

\* PathRejection: the path parameters could not be deserialized (with the
\* kind of the failure), or the route has none
FailedToDeserializePathParams(kind) ==
    [variant |-> "FailedToDeserializePathParams", kind |-> kind]
WrongNumberOfParameters(got, expected) ==
    [variant |-> "WrongNumberOfParameters", got |-> got, expected |-> expected]
\* Err(rejection) of an extractor
Rejected(r) == [status |-> "Err", rejection |-> r]

\* the extractor Path<GitOid> on the segment of the request
Path_GitOid(segment) ==
    LET id == GitOid_deserialize(segment) IN
    IF id.status = "Ok" THEN id
    ELSE Rejected(FailedToDeserializePathParams(
                    [variant |-> "Message", message |-> id.value.message]))

\* impl From<GitError> for ApiError, impl From<PathRejection> for ApiError
ApiError_Git(e) == [variant |-> "Git", error |-> e]
ApiError_PathRejection(r) == [variant |-> "PathRejection", error |-> r]

StatusCode_always_not_found(e) ==
    [status |-> 404, message |-> "not found"]
\* impl From<ApiError> for (StatusCode, String)
StatusCode_from(e) ==
    IF e.variant = "Git"
    THEN IF e.error.variant = "ObjectNotFound"
         THEN [status |-> 404,
               message |-> "Git object not found: " \o e.error.message]
         ELSE IF e.error.variant = "RepositoryNotFound"
         THEN [status |-> 404,
               message |-> "Git repository " \o e.error.path \o " not found"]
         ELSE [status |-> 500, message |-> e.error.message]
    ELSE [status |-> 400, message |-> "PathRejection"]

\* impl IntoResponse for ApiError: the status and the message as JSON
ApiError_into_response(e) ==
    LET sm == StatusCode_from(e)
    IN  [status |-> sm.status, format |-> "json", view |-> "Error",
         data |-> [message |-> sm.message]]

\* impl IntoResponse for RenderError: the status and the error page
RenderError_into_response(e) ==
    LET sm == StatusCode_from(e)
    IN  [status |-> sm.status, format |-> "html", view |-> "Error",
         data |-> [code |-> sm.status, message |-> sm.message]]

\* CatchPanicLayer: a handler that panics is answered with status 500
catch_panic == [status |-> 500, format |-> "text", view |-> "Panic", data |-> <<>>]

\* Ok(template): status 200
Template(view, data) ==
    [status |-> 200, format |-> "html", view |-> view, data |-> data]

\* the handlers of the API: open(state.repo_root)?, then the operation; r
\* is what the operation returns: `?` on an error, Ok(Json(..)), with status
\* 200, otherwise
api_handler(files, r) ==
    LET Json(value) ==
            [status |-> 200, format |-> "json", view |-> "Json", data |-> value]
        opened(repo) ==
            IF repo.status = "Err"
            THEN ApiError_into_response(ApiError_Git(repo.value))
            ELSE IF r.status = "Panic" THEN catch_panic
            ELSE IF r.status = "Err"
            THEN ApiError_into_response(ApiError_Git(r.value))
            ELSE Json(r.value)
    IN  opened(open(files, RepoRoot))

\* api::get_blob: id?.0, open(state.repo_root)?, get_blob(id)?
api_get_blob(files, db, segment) ==
    LET handler(id) ==
            IF id.status = "Err"
            THEN ApiError_into_response(ApiError_PathRejection(id.rejection))
            ELSE api_handler(files, get_blob(db, Oid_fmt(id.value)))
    IN  handler(Path_GitOid(segment))

\* map_empty_segment_to_default: a route without the path segment counts as
\* the empty path, any other rejection stays
map_empty_segment_to_default(r) ==
    IF /\ r.variant = "FailedToDeserializePathParams"
       /\ r.kind.variant = "WrongNumberOfParameters"
       /\ r.kind.got = 0
       /\ r.kind.expected = 1
    THEN Ok("")
    ELSE Rejected(r)

\* Result::or_else(map_empty_segment_to_default)
or_else_default(path) ==
    IF path.status = "Ok" THEN path
    ELSE map_empty_segment_to_default(path.rejection)

\* a handler of the pages fails with a GitError or ends in a panic
render_failure(r) ==
    IF r.status = "Panic" THEN catch_panic
    ELSE RenderError_into_response(ApiError_Git(r.value))

is_single_entry(items, full_path, path) == Len(items) = 1
\* the test of the pages that the listing is the file the request names:
\* one item, whose path is the path of the request
is_single_entry_at(items, full_path, path) ==
    Len(items) = 1 /\ full_path = path

\* git::list_tree: the page of a path of the HEAD tree
html_list_tree(files, db, hd, extracted) ==
    LET blob_view(blob) ==
            IF blob.status # "Ok" THEN render_failure(blob)
            ELSE Template("Blob", blob.value)
        tree_view(tree, path) ==
            IF tree.status # "Ok" THEN render_failure(tree)
            ELSE IF is_single_entry_at(tree.value,
                        IF tree.value = <<>> THEN ""
                        ELSE tree.value[1].root \o tree.value[1].name,
                        path)
            THEN blob_view(get_blob(db, tree.value[1].id))
            ELSE Template("Tree", tree.value)
        opened(repo, path) ==
            IF repo.status = "Err" THEN render_failure(repo)
            ELSE tree_view(list_tree(db, hd, path), path)
        handler(path) ==
            IF path.status = "Err"
            THEN RenderError_into_response(ApiError_PathRejection(path.rejection))
            ELSE opened(open(files, RepoRoot), path.value)
    IN  handler(or_else_default(extracted))

\* git::list_index: the page of a path of the index.  The single item is
\* taken out of the listing before it is tested to be a file entry.
html_list_index(files, entries, db, extracted) ==
    LET blob_view(blob) ==
            IF blob.status # "Ok" THEN render_failure(blob)
            ELSE Template("Blob", blob.value)
        index_view(listing, path) ==
            IF listing.status # "Ok" THEN render_failure(listing)
            ELSE IF is_single_entry_at(listing.value,
                        IF listing.value = <<>> THEN ""
                        ELSE listing.value[1].path,
                        path)
            THEN IF listing.value[1].kind = "Entry"
                 THEN blob_view(get_blob(db, listing.value[1].id))
                 ELSE Template("Index", Tail(listing.value))
            ELSE Template("Index", listing.value)
        opened(repo, path) ==
            IF repo.status = "Err" THEN render_failure(repo)
            ELSE index_view(list_index(entries, path), path)
        handler(path) ==
            IF path.status = "Err"
            THEN RenderError_into_response(ApiError_PathRejection(path.rejection))
            ELSE opened(open(files, RepoRoot), path.value)
    IN  handler(or_else_default(extracted))

\* what the extractor Path<String> gives the handler: the path segment of
\* the request, or a rejection
Extracted ==
    LET HttpPaths == {"", "a", "a/", "a/a", "ab", "b"}
        MissingPathParams == [variant |-> "MissingPathParams"]
    IN
    {Ok(p) : p \in HttpPaths}
        \cup {Rejected(FailedToDeserializePathParams(
                            WrongNumberOfParameters(g, 1))) : g \in {0, 2}}
        \cup {Rejected(FailedToDeserializePathParams(
                            [variant |-> "InvalidUtf8InPathParam"])),
              Rejected(MissingPathParams)}
\* the characters of the segment of a request for a blob: hex digits in
\* both cases and a letter that is none
RECURSIVE Segments(_)
Segments(n) ==
    IF n = 0 THEN {""}
    ELSE LET OidChars == {"0", "a", "A", "g"}
             shorter == Segments(n - 1)
         IN  shorter \cup {s \o c : s \in {t \in shorter : Len(t) = n - 1},
                                    c \in OidChars}
\* a blob written to the store besides the files, which an id of the width
\* of the model names
LooseBlob ==
    LET LooseBlobId == Oid_fmt([i \in 1..OidHexLen |-> IF i = 1 THEN 10 ELSE 0])
    IN  LooseBlobId :> [type |-> "Blob", content |-> "a", binary |-> FALSE]

\* the repositories served: none, a file, a file in a directory, a file next
\* to a file or to a directory, two files in one directory; RootAnswers is
\* what Repository::open answers at the root the server is started with
InitHttp ==
    LET HttpSets ==
            {{}, {"a"}, {"a/a"}, {"a", "ab"}, {"a/a", "ab"}, {"a/a", "a/ab"}}
        RootAnswers ==
            <<Ok(RepoRoot),
              Err(git2_Error("Repository", "NotFound",
                             "could not find repository")),
              Err(git2_Error("Os", "GenericError", "failed to open"))>>
    IN
    /\ \E F \in HttpSets : \E c \in Conditions(F) :
        /\ c.kind \in {"none", "unborn", "missing"}
        /\ index = add_paths(F)
        /\ odb = store_of(F, {}, c) @@ LooseBlob
        /\ head = IF c.kind = "unborn" THEN "unborn" ELSE tree_id("")
    /\ refdb = refs_of(head, "refs/heads/main", "refs/tags/v1")
    /\ \E i \in DOMAIN RootAnswers :
        fs = [TheFiles EXCEPT ![RepoRoot] = RootAnswers[i]]
    /\ calls = <<>>
    /\ pc = "idle"
    /\ op = "none"
    /\ arg = Ok("")
    /\ result = Ok(<<>>)
    /\ response = NoResponse

\* a request to a route is answered with r; a is what the extractor of the
\* route was given
Route(o, a, r) ==
    /\ pc = "idle"
    /\ pc' = "done"
    /\ op' = o
    /\ arg' = a
    /\ response' = r
    /\ UNCHANGED <<index, odb, head, result, refdb, fs, calls>>

ApiGetBlob(s) == Route("/api/blobs", Ok(s), api_get_blob(fs, odb, s))
ApiListBranch ==
    Route("/api/branches", Ok(""), api_handler(fs, list_branch(odb, refdb)))
ApiListCommit ==
    Route("/api/commits", Ok(""), api_handler(fs, list_commit(odb, head, refdb)))
ApiListIndex ==
    Route("/api/indexes", Ok(""), api_handler(fs, list_index(index, "")))
ApiListReference ==
    Route("/api/references", Ok(""), api_handler(fs, list_reference(odb, refdb)))
ApiListTag ==
    Route("/api/tags", Ok(""), api_handler(fs, list_tag(odb, refdb)))
ApiListTree ==
    Route("/api/trees", Ok(""), api_handler(fs, list_tree(odb, head, "")))
HtmlListIndex(x) == Route("/git/index", x, html_list_index(fs, index, odb, x))
HtmlListTree(x) == Route("/git/tree", x, html_list_tree(fs, odb, head, x))

\* the response is sent
Reply ==
    /\ pc = "done"
    /\ pc' = "idle"
    /\ op' = "none"
    /\ arg' = Ok("")
    /\ response' = NoResponse
    /\ UNCHANGED <<index, odb, head, result, refdb, fs, calls>>

NextHttp ==
    \/ \E s \in Segments(OidHexLen + 1) : ApiGetBlob(s)
    \/ ApiListBranch
    \/ ApiListCommit
    \/ ApiListIndex
    \/ ApiListReference
    \/ ApiListTag
    \/ ApiListTree
    \/ \E x \in Extracted : HtmlListIndex(x)
    \/ \E x \in Extracted : HtmlListTree(x)
    \/ Reply

SpecHttp == InitHttp /\ [][NextHttp]_vars

---------------------------------------------------------------------------
(* Blobs, abbreviated ids, times and errors (SpecService).                 *)

\* C21: a blob that get_blob returns is consistent with itself and with the
\* store: its id is the id asked for, its content is the Binary variant
\* exactly when is_binary is set, is_binary is the backend's classification
\* of the blob, the content holds the blob's bytes, and size is the number
\* of bytes of the blob.
C21_BlobIsSelfConsistent ==
    (Returned("get_blob") /\ result.status = "Ok") =>
        /\ arg \in DOMAIN odb
        /\ odb[arg].type = "Blob"
        /\ result.value.id = arg
        /\ result.value.is_binary = odb[arg].binary
        /\ result.value.content.variant \in {"Binary", "Text"}
        /\ (result.value.content.variant = "Binary") <=> result.value.is_binary
        /\ result.value.content.variant = "Binary" =>
                result.value.content.bytes = odb[arg].content
        /\ result.value.content.variant = "Text" =>
                result.value.content.text = odb[arg].content
        /\ result.value.size = Len(odb[arg].content)

\* a binary blob of three bytes that are text as well is returned as Binary
C21_Witness ==
    /\ Returned("get_blob") /\ result.status = "Ok"
    /\ result.value.is_binary
    /\ result.value.content = [variant |-> "Binary", bytes |-> "a/a"]
    /\ result.value.size = 3
    /\ ValidUtf8(odb[arg].content)

\* the abbreviated ids of the items of a successful result
ShortIds ==
    IF op = "get_blob" THEN {result.value.short_id}
    ELSE IF op \in {"list_tree", "list_commit"}
    THEN {result.value[i].short_id : i \in DOMAIN result.value}
    ELSE IF op \in {"list_branch", "list_reference", "list_tag"}
    THEN {result.value[i].target_short : i \in DOMAIN result.value}
    ELSE {}

\* C22: every item of a successful get_blob, list_tree, list_commit,
\* list_branch, list_reference or list_tag carries an abbreviated id of at
\* least seven characters; none is empty.
C22_ShortIdsAreNeverEmpty ==
    (pc = "done" /\ result.status = "Ok") =>
        \A id \in ShortIds : Len(id) >= DefaultAbbrev

\* the time of the HEAD commit as stored, and as list_commit returned it
StoredTime == odb[HeadCommit].time
ReturnedTime == result.value[1].time
\* an offset of minutes whose hours and minutes, rounded toward zero, are
\* within 25 hours and 59 minutes
ValidOffset(minutes) == minutes \in -(25 * 60 + 59)..(25 * 60 + 59)
\* the date-time the conversion is to give for a stored time
ExpectedTime(t) ==
    [unix_timestamp |-> IF t.seconds \in MinTimestamp..MaxTimestamp
                        THEN t.seconds ELSE 0,
     offset |-> IF ValidOffset(t.offset_minutes)
                THEN t.offset_minutes * 60 ELSE 0]

\* C23: the time of a commit returned by list_commit is the instant stored
\* in the commit: its unix timestamp is the stored seconds, or the epoch
\* when they are out of range; its offset is the stored offset when that is
\* a valid offset and UTC otherwise; and the conversion never fails.
C23_TimeIsTheStoredInstant ==
    Returned("list_commit") =>
        /\ result.status = "Ok"
        /\ ReturnedTime = ExpectedTime(StoredTime)

\* what the backend answered to the call the last operation began with
BackendAnswer ==
    IF op = "open" THEN Repository_open(fs, arg)
    ELSE IF op = "get_blob" THEN find_blob(odb, arg)
    ELSE IF head = "unborn"
    THEN Err(git2_Error("Reference", "UnbornBranch", "reference not found"))
    ELSE IF op = "list_tree" /\ ~Loadable(head)
    THEN Err(git2_Error("Odb", "NotFound", "object not found"))
    ELSE Ok(<<>>)

\* the backend reports that the location holds no repository
NoRepositoryThere(e) == e.code = "NotFound" /\ e.class \in {"Os", "Repository"}

\* C24: every error a service operation returns is ObjectNotFound,
\* RepositoryNotFound or Unhandled.  RepositoryNotFound comes from open only,
\* exactly when the backend error has code NotFound and class Os or
\* Repository; ObjectNotFound is returned exactly when the backend error has
\* class Odb and code NotFound; every other backend error is returned as
\* Unhandled with the class, the code and the message of the backend error.
C24_ErrorsAreMappedOnce ==
    (pc = "done" /\ result.status = "Err") =>
        LET e == BackendAnswer.value
            v == result.value.variant
        IN  /\ BackendAnswer.status = "Err"
            /\ v \in {"ObjectNotFound", "RepositoryNotFound", "Unhandled"}
            /\ v = "RepositoryNotFound" <=> (op = "open" /\ NoRepositoryThere(e))
            /\ v = "ObjectNotFound" <=> (e.class = "Odb" /\ e.code = "NotFound")
            /\ v = "Unhandled" =>
                    /\ result.value.class = e.class
                    /\ result.value.code = e.code
                    /\ result.value.message = e.message

\* a corrupt object is asked for: the error is Unhandled and names the
\* class Odb and the code of the backend error
C24_Witness ==
    /\ Returned("get_blob")
    /\ arg \in DOMAIN odb /\ odb[arg].type = "Corrupt"
    /\ result = Err([variant |-> "Unhandled", class |-> "Odb",
                     code |-> "GenericError",
                     message |-> "failed to read object"])

---------------------------------------------------------------------------
(* C25, C29: pruning and segment indexing (Spec).                          *)

\* the entries of a tree and of all its subtrees in pre-order, each with the
\* prefix it lives under: what a walk that skips nothing visits
RECURSIVE PreOrder(_, _, _)
PreOrder(entries, i, prefix) ==
    IF i > Len(entries) THEN <<>>
    ELSE LET e == entries[i]
             below == IF e.kind = "Tree" /\ Loadable(e.id)
                      THEN PreOrder(odb[e.id].entries, 1, prefix \o e.name \o "/")
                      ELSE <<>>
         IN  <<[root |-> prefix, entry |-> e]>> \o below
                \o PreOrder(entries, i + 1, prefix)

\* the result of the walk that skips nothing: the listing made from the
\* first entry in pre-order whose full path is P, empty when there is none
IsUnprunedResult(items, P) ==
    LET all == PreOrder(odb[head].entries, 1, "")
        hits == {i \in DOMAIN all : FullPath(all[i]) = P}
    IN  IF hits = {} THEN items = <<>>
        ELSE LET x == all[CHOOSE i \in hits : \A j \in hits : i <= j] IN
             IF x.entry.kind = "Tree"
             THEN IsListingOf(items, odb[x.entry.id].entries, P \o "/")
             ELSE IsListingOf(items, <<x.entry>>, x.root)

\* p begins with the characters of q
BeginsWith(p, q) == Len(p) >= Len(q) /\ SubSeq(p, 1, Len(q)) = q

\* the subtrees the walk leaves out for the query path P
Skipped(P) ==
    {x \in HeadEntries :
        /\ x.entry.kind = "Tree"
        /\ FullPath(x) # P
        /\ skip_subtree(P, FullPath(x))}

\* C25: pruning in list_tree is safe.  A subtree at path C is skipped only
\* when the query path does not start with C + "/", no skipped subtree
\* holds an entry whose full path is the query path, and the result of
\* list_tree is the result of the walk that skips nothing.
C25_PruningIsSafe ==
    (Returned("list_tree") /\ head # "unborn" /\ QueryPath # "") =>
        /\ result.status = "Ok"
        /\ IsUnprunedResult(result.value, QueryPath)
        /\ \A x \in Skipped(QueryPath) :
            /\ ~BeginsWith(QueryPath, FullPath(x) \o "/")
            /\ \A y \in EntriesBelow(x.entry.id, FullPath(x) \o "/") :
                    FullPath(y) # QueryPath

\* the file ab/a is found although the subtree a, which comes first, was
\* skipped
C25_Witness ==
    /\ Returned("list_tree") /\ arg = "ab/a"
    /\ \E x \in Skipped(QueryPath) : FullPath(x) = "a"
    /\ result.status = "Ok"
    /\ Len(result.value) = 1
    /\ result.value[1].root = "ab/"
    /\ result.value[1].name = "a"

\* the number of segments of the query path P: depth in list_index
SegmentCount(P) == IF P = "" THEN 0 ELSE Cardinality(Slashes(P)) + 1

\* the index entries that reach the split branch for the query path P
ReachSplit(P) ==
    {e \in Range(index) :
        /\ e.path # P
        /\ P = "" \/ BeginsWith(e.path, P \o "/")}

\* the parts the entry path p is split into for the query path P
Parts(P, p) == splitn(SegmentCount(P) + 2, p)

\* C29: the segment indexing of list_index never goes out of bounds.  For
\* every query path and every index entry that reaches the split branch,
\* the split into at most depth + 2 parts gives depth + 1 or depth + 2
\* parts, so the first depth + 1 parts and the part at position depth
\* exist, and list_index does not panic.
C29_SegmentIndexingIsInBounds ==
    Returned("list_index") =>
        /\ result.status # "Panic"
        /\ \A e \in ReachSplit(QueryPath) :
            LET d == SegmentCount(QueryPath)
                n == Len(Parts(QueryPath, e.path))
            IN  /\ n \in {d + 1, d + 2}
                /\ 1..(d + 1) \subseteq DOMAIN Parts(QueryPath, e.path)

\* below "a" the index holds a file, split into depth + 1 parts, and a file
\* in a directory, split into depth + 2 parts
C29_Witness ==
    /\ Returned("list_index") /\ arg = "a/"
    /\ result.status = "Ok"
    /\ \E e \in ReachSplit(QueryPath) : Len(Parts(QueryPath, e.path)) = 2
    /\ \E e \in ReachSplit(QueryPath) :
            /\ Len(Parts(QueryPath, e.path)) = 3
            /\ Parts(QueryPath, e.path)[3] = "a"

---------------------------------------------------------------------------
(* C26: the walk of list_tree, step by step (SpecConc).                    *)

\* the entry the walk of call c visits next is the one the query names
AtMatch(c) ==
    /\ calls[c].pc = "walk"
    /\ calls[c].todo # <<>>
    /\ FullPath(Head(calls[c].todo)) = calls[c].path

\* r is the result made from the entry x alone
MadeFrom(r, x) ==
    /\ r.status = "Ok"
    /\ IF x.entry.kind = "Tree"
       THEN IsListingOf(r.value, odb[x.entry.id].entries, FullPath(x) \o "/")
       ELSE IsListingOf(r.value, <<x.entry>>, x.root)

\* what a step may do to the walk of call c
WalkStopsAtMatch(c) ==
    /\ (AtMatch(c) /\ calls'[c] # calls[c]) =>
            /\ calls'[c].pc = "done"
            /\ calls'[c].todo = <<>>
            /\ MadeFrom(calls'[c].result, Head(calls[c].todo))
    /\ (calls[c].pc = "walk" /\ calls'[c].pc = "walk" /\ calls'[c] # calls[c]) =>
            /\ ~AtMatch(c)
            /\ calls'[c].vec = <<>>
    /\ calls[c].pc = "done" =>
            \/ calls'[c] = calls[c]
            \/ calls'[c] = IdleCall

\* C26: the walk of list_tree stops at the first entry whose full path is
\* the query path.  The step that visits it ends the walk with the result
\* made from that entry alone, no later entry is visited, and the result
\* stays as it is until the call responds; as long as the walk goes on the
\* result is empty.
C26_WalkStopsAtFirstMatch ==
    /\ [](\A c \in CallIds : calls[c].pc = "walk" => calls[c].vec = <<>>)
    /\ [][\A c \in CallIds : WalkStopsAtMatch(c)]_vars

\* the file a/a was found and the walk ended with the entry ab of the root
\* never visited
C26_Witness ==
    \E c \in CallIds :
        /\ calls[c].pc = "done" /\ calls[c].op = "list_tree"
        /\ calls[c].arg = "a/a"
        /\ calls[c].todo = <<>>
        /\ "ab" \in IndexPathSet
        /\ calls[c].result.status = "Ok"
        /\ Len(calls[c].result.value) = 1
        /\ calls[c].result.value[1].name = "a"
        /\ calls[c].result.value[1].root = "a/"

---------------------------------------------------------------------------
(* C27, C28, C30: the routes (SpecHttp).                                   *)

ApiRoutes ==
    {"/api/blobs", "/api/branches", "/api/commits", "/api/indexes",
     "/api/references", "/api/tags", "/api/trees"}
PageRoutes == {"/git/index", "/git/tree"}
Answered(o) == pc = "done" /\ op = o

\* the path parameter of the request was rejected
ParameterRejected ==
    IF op = "/api/blobs" THEN Path_GitOid(arg.value).status = "Err"
    ELSE IF op \in PageRoutes THEN or_else_default(arg).status = "Err"
    ELSE FALSE

\* the path a request to a page is for
PagePath == or_else_default(arg).value

\* what the operation the route begins with returns on the repository
FirstCall ==
    IF op = "/api/blobs"
    THEN get_blob(odb, Oid_fmt(Path_GitOid(arg.value).value))
    ELSE IF op = "/api/branches" THEN list_branch(odb, refdb)
    ELSE IF op = "/api/commits" THEN list_commit(odb, head, refdb)
    ELSE IF op = "/api/indexes" THEN list_index(index, "")
    ELSE IF op = "/api/references" THEN list_reference(odb, refdb)
    ELSE IF op = "/api/tags" THEN list_tag(odb, refdb)
    ELSE IF op = "/api/trees" THEN list_tree(odb, head, "")
    ELSE IF op = "/git/index" THEN list_index(index, PagePath)
    ELSE list_tree(odb, head, PagePath)

\* the status each error is to be presented with
StatusOf(variant) ==
    IF variant \in {"ObjectNotFound", "RepositoryNotFound"} THEN 404 ELSE 500

\* the response presents an error with the status s, in the format of the
\* route
PresentsError(s) ==
    /\ response.status = s
    /\ response.view = "Error"
    /\ op \in ApiRoutes => response.format = "json"
    /\ op \in PageRoutes => (response.format = "html" /\ response.data.code = s)

\* C27: each error is presented with a fixed status, by the JSON API and by
\* the pages alike: a rejected path parameter with 400, RepositoryNotFound
\* and ObjectNotFound with 404, Unhandled with 500; a response with a 2xx
\* status is given only when nothing failed.
C27_ErrorsHaveFixedStatus ==
    pc = "done" =>
        LET root == open(fs, RepoRoot)
            blobs == {get_blob(odb, FirstCall.value[i].id) :
                        i \in DOMAIN FirstCall.value}
        IN  IF ParameterRejected THEN PresentsError(400)
            ELSE IF root.status = "Err"
            THEN /\ PresentsError(StatusOf(root.value.variant))
                 /\ fs[RepoRoot].value.class = "Repository" => response.status = 404
                 /\ fs[RepoRoot].value.class = "Os" => response.status = 500
            ELSE IF FirstCall.status = "Err"
            THEN PresentsError(StatusOf(FirstCall.value.variant))
            ELSE IF response.view = "Error"
            THEN /\ op \in PageRoutes
                 /\ \E b \in blobs :
                        /\ b.status = "Err"
                        /\ PresentsError(StatusOf(b.value.variant))
            ELSE /\ response.status = 200
                 /\ response.view = "Blob" =>
                        get_blob(odb, response.data.id).status = "Ok"

\* the tree page is asked for the file a, whose blob is missing from the
\* store: the error page with status 404
C27_Witness ==
    /\ Answered("/git/tree") /\ arg = Ok("a")
    /\ "a" \in IndexPathSet
    /\ blob_id("a") \notin DOMAIN odb
    /\ response.status = 404
    /\ response.format = "html"
    /\ response.view = "Error"
    /\ response.data.code = 404

\* the path of the request to a page, one trailing '/' removed
PageQuery ==
    IF Len(PagePath) > 0 /\ SubSeq(PagePath, Len(PagePath), Len(PagePath)) = "/"
    THEN SubSeq(PagePath, 1, Len(PagePath) - 1)
    ELSE PagePath

\* the request names a directory of HEAD, or of the index, that has exactly
\* one child
TreeWithOneChild ==
    \E x \in HeadEntries :
        /\ x.entry.kind = "Tree"
        /\ FullPath(x) = PageQuery
        /\ Loadable(x.entry.id)
        /\ Len(odb[x.entry.id].entries) = 1
DirectoryWithOneChild ==
    /\ PageQuery \notin IndexPathSet
    /\ Cardinality(FileChildren(PageQuery) \cup DirChildren(PageQuery)) = 1

\* C28: the tree page shows a blob only when list_tree returns exactly one
\* entry whose root + name is the path of the request, the index page only
\* when list_index returns exactly one item that is a file entry with the
\* path of the request; in every other case the page shows the listing as
\* the operation returned it.  A directory with exactly one child is shown
\* as a listing, and a request without a path segment shows the root.
C28_BlobViewOnlyForTheFile ==
    (pc = "done" /\ op \in PageRoutes /\ response.status = 200) =>
        LET items == FirstCall.value
            single == /\ Len(items) = 1
                      /\ IF op = "/git/tree"
                         THEN items[1].root \o items[1].name = PagePath
                         ELSE /\ items[1].kind = "Entry"
                              /\ items[1].path = PagePath
            listing == IF op = "/git/tree" THEN "Tree" ELSE "Index"
        IN  /\ response.view \in {"Blob", listing}
            /\ response.view = "Blob" =>
                    /\ single
                    /\ response.data.id = items[1].id
                    /\ IF op = "/git/tree"
                       THEN \E x \in HeadEntries :
                                /\ x.entry.kind # "Tree"
                                /\ FullPath(x) = PagePath
                       ELSE PagePath \in IndexPathSet
            /\ ~single => (response.view = listing /\ response.data = items)
            /\ (op = "/git/tree" /\ TreeWithOneChild) =>
                    (response.view = "Tree" /\ Len(response.data) = 1)
            /\ (op = "/git/index" /\ DirectoryWithOneChild) =>
                    (response.view = "Index" /\ Len(response.data) = 1)
            /\ arg.status = "Err" =>
                    /\ PagePath = ""
                    /\ response.view = listing
                    /\ response.data = items

\* the tree page of the directory a, whose only child is the file a/a: the
\* listing of that one entry
C28_Witness ==
    /\ Answered("/git/tree") /\ arg = Ok("a")
    /\ IndexPathSet = {"a/a"}
    /\ TreeWithOneChild
    /\ response.status = 200
    /\ response.view = "Tree"
    /\ Len(response.data) = 1
    /\ response.data[1].root = "a/"
    /\ response.data[1].name = "a"

\* s is an object id in hex: the full number of digits, each a hex digit of
\* either case
IsHexObjectId(s) ==
    /\ Len(s) = OidHexLen
    /\ \A i \in 1..Len(s) :
        \E j \in 1..Len("0123456789abcdefABCDEF") :
            SubSeq(s, i, i) = SubSeq("0123456789abcdefABCDEF", j, j)

\* C30: object ids round-trip through their text, and nothing else is read
\* as an id.  An id deserialized from a segment of the blob route is equal
\* to the id deserialized from its own serialization; a segment that is not
\* a hex object id fails to deserialize and the route answers it as a
\* rejected path parameter, not with the lookup of some id.
C30_OidTextRoundTrips ==
    Answered("/api/blobs") =>
        LET id == GitOid_deserialize(arg.value) IN
        /\ id.status = "Ok" =>
                GitOid_deserialize(GitOid_serialize(id.value)) = id
        /\ IsHexObjectId(arg.value) => id.status = "Ok"
        /\ ~IsHexObjectId(arg.value) =>
                /\ id.status = "Err"
                /\ response.status = 400
                /\ response.view = "Error"

====
